---- MODULE Spec2Model ----
(***************************************************************************)
(* A model of api-man's configuration store and request engine             *)
(* (src/config.go): the request files under requests/, the environment     *)
(* files under environments/, and the ConfigManager operations on them.    *)
(*                                                                         *)
(* A file below requests/ is named by the sequence of its path segments    *)
(* with the ".json" suffix dropped: <<"a">> is requests/a.json and         *)
(* <<"a","b">> is requests/a/b.json.  A directory is named by its          *)
(* segments: <<"a">> is requests/a/.  A logical request path is the same   *)
(* kind of sequence, so the flat file of the request a/b and the variant b *)
(* of the request a are one file, as on disk.                              *)
(***************************************************************************)
EXTENDS Integers, Sequences, FiniteSets, TLC

VARIABLES
    files,  \* requests/: file path -> content of the file
    dirs,   \* requests/: the directories that exist (<<>> is requests/ itself)
    envs,   \* environments/: name -> content of environments/<name>.json
    last,   \* the last operation called, its arguments, its result and the
            \* workspace it was called on
    procs,  \* the operations running concurrently on the workspace, each
            \* with the filesystem call it is about to make
    tui     \* the terminal interface's Model, when it runs

vars == <<files, dirs, envs, last, procs, tui>>

(***************************************************************************)
(* Bounds of the model.                                                    *)
(***************************************************************************)
\* How many of BodyNameSeq's names are used for variant files and arguments.
NumBodyNames == 2

BodyNameSeq == <<"b", "request", "c", "d">>

BodyNames == {BodyNameSeq[i] : i \in 1..NumBodyNames}

\* The request the operations are called on, and a request below it: the flat
\* file of a/b is the variant b of a.
TopPath == <<"a">>

NestedPath == <<"a", "b">>

ReqPaths == {TopPath, NestedPath}

(***************************************************************************)
(* Strings.  encoding/json writes a Go string as valid UTF-8: every        *)
(* invalid byte becomes U+FFFD.  BadUTF8 stands for a string with an       *)
(* invalid byte and Replaced for what the encoder writes for it.           *)
(***************************************************************************)
BadUTF8 == "caf<0xE9>"

Replaced == "caf<U+FFFD>"

Sanitize(s) == IF s = BadUTF8 THEN Replaced ELSE s

SanitizeSeq(q) == [i \in 1..Len(q) |-> Sanitize(q[i])]

(***************************************************************************)
(* Go maps.  A map[string]string is [nil, kv]: nil or a function.          *)
(***************************************************************************)
EmptyFcn == <<>>

NilMap == [nil |-> TRUE, kv |-> EmptyFcn]

MakeMap(f) == [nil |-> FALSE, kv |-> f]

\* A value of a map[string]interface{}: its Go type and its printed value.
GoInt(v) == [t |-> "int", v |-> v]

GoFloat(v) == [t |-> "float64", v |-> v]

GoString(v) == [t |-> "string", v |-> v]

(***************************************************************************)
(* RequestConfig (config.go:17-28) and its zero value.                     *)
(***************************************************************************)
RequestConfig(name, desc, method, url, headers, cookies, body, active, params, timeout) ==
    [Name |-> name, Description |-> desc, Method |-> method, URL |-> url,
     Headers |-> headers, Cookies |-> cookies, Body |-> body,
     ActiveBody |-> active, Params |-> params, Timeout |-> timeout]

ZeroConfig == RequestConfig("", "", "", <<>>, NilMap, NilMap, "", "", NilMap, 0)

(***************************************************************************)
(* json.MarshalIndent of a RequestConfig: the JSON object written.  A JSON *)
(* object is a function from its keys; "activeBody" has omitempty.  A map  *)
(* is written as null (nil) or as an object; a number of any Go type is    *)
(* written as a JSON number.                                               *)
(***************************************************************************)
JSONNull == [null |-> TRUE, obj |-> EmptyFcn]

MarshalMap(m) ==
    IF m.nil THEN JSONNull
    ELSE [null |-> FALSE, obj |-> [k \in DOMAIN m.kv |-> Sanitize(m.kv[k])]]

MarshalValue(v) ==
    IF v.t \in {"int", "float64"} THEN [t |-> "number", v |-> v.v]
    ELSE [t |-> "string", v |-> Sanitize(v.v)]

MarshalParams(m) ==
    IF m.nil THEN JSONNull
    ELSE [null |-> FALSE, obj |-> [k \in DOMAIN m.kv |-> MarshalValue(m.kv[k])]]

MarshalActiveBodyAlways(config) ==
    [name |-> Sanitize(config.Name),
     description |-> Sanitize(config.Description),
     method |-> Sanitize(config.Method),
     url |-> SanitizeSeq(config.URL),
     headers |-> MarshalMap(config.Headers),
     cookies |-> MarshalMap(config.Cookies),
     body |-> Sanitize(config.Body),
     activeBody |-> Sanitize(config.ActiveBody),
     params |-> MarshalParams(config.Params),
     timeout |-> config.Timeout]

\* Mutant of MarshalRequest: the timeout is not written.
MarshalRequestNoTimeout(config) ==
    LET all == MarshalActiveBodyAlways(config)
    IN  [k \in DOMAIN all \ ({"timeout"} \cup IF config.ActiveBody = ""
                                              THEN {"activeBody"} ELSE {}) |-> all[k]]

MarshalRequest(config) ==
    LET all == MarshalActiveBodyAlways(config)
    IN  IF config.ActiveBody = ""
        THEN [k \in DOMAIN all \ {"activeBody"} |-> all[k]]
        ELSE all

(***************************************************************************)
(* The content of a file: a JSON document ("doc"), any other text          *)
(* ("text"), or a file the process may neither read nor write              *)
(* ("noperm").                                                             *)
(***************************************************************************)
DocFile(d) == [kind |-> "doc", doc |-> d, text |-> ""]

TextFile(t) == [kind |-> "text", doc |-> EmptyFcn, text |-> t]

NoPermFile == [kind |-> "noperm", doc |-> EmptyFcn, text |-> ""]

\* A body variant as a user writes it: a JSON object with none of the keys of
\* a request record.
ExampleBody == "{\"example\": \"data\"}"

\* Texts that are JSON objects (with no key of a record); any other text,
\* the empty one included, is not JSON.
JSONObjectTexts == {ExampleBody}

NotJSON == "not json"

(***************************************************************************)
(* json.Unmarshal into a RequestConfig: a key that is absent leaves the    *)
(* field at its zero value; null leaves a map nil; a JSON number in an     *)
(* interface{} becomes a float64.                                          *)
(***************************************************************************)
Field(d, k, zero) == IF k \in DOMAIN d THEN d[k] ELSE zero

UnmarshalMap(j) == IF j.null THEN NilMap ELSE MakeMap(j.obj)

UnmarshalValue(j) ==
    IF j.t = "number" THEN GoFloat(j.v) ELSE GoString(j.v)

UnmarshalParams(j) ==
    IF j.null THEN NilMap
    ELSE MakeMap([k \in DOMAIN j.obj |-> UnmarshalValue(j.obj[k])])

UnmarshalDoc(d) ==
    RequestConfig(Field(d, "name", ""),
                  Field(d, "description", ""),
                  Field(d, "method", ""),
                  Field(d, "url", <<>>),
                  UnmarshalMap(Field(d, "headers", JSONNull)),
                  UnmarshalMap(Field(d, "cookies", JSONNull)),
                  Field(d, "body", ""),
                  Field(d, "activeBody", ""),
                  UnmarshalParams(Field(d, "params", JSONNull)),
                  Field(d, "timeout", 0))

\* [err, config]: err is "" or "parse".
UnmarshalRequest(content) ==
    IF content.kind = "doc"
    THEN [err |-> "", config |-> UnmarshalDoc(content.doc)]
    ELSE IF content.text \in JSONObjectTexts
    THEN [err |-> "", config |-> ZeroConfig]
    ELSE [err |-> "parse", config |-> ZeroConfig]

(***************************************************************************)
(* The os calls of the store.                                              *)
(***************************************************************************)
\* os.Stat(<file>) finds the file.
FileExists(fs, f) == f \in DOMAIN fs

\* os.ReadFile: [err, content], err "" or "notexist" or "permission".
ReadFile(fs, f) ==
    IF ~FileExists(fs, f) THEN [err |-> "notexist", content |-> NoPermFile]
    ELSE IF fs[f].kind = "noperm" THEN [err |-> "permission", content |-> NoPermFile]
    ELSE [err |-> "", content |-> fs[f]]

\* os.WriteFile fails on an existing file the process may not write.
CanWrite(fs, f) == ~FileExists(fs, f) \/ fs[f].kind # "noperm"

WriteFile(fs, f, content) ==
    [g \in DOMAIN fs \cup {f} |-> IF g = f THEN content ELSE fs[g]]

RemoveFile(fs, f) == [g \in DOMAIN fs \ {f} |-> fs[g]]

\* os.MkdirAll(d): d and every directory above it.
MkdirAll(ds, d) == ds \cup {SubSeq(d, 1, i) : i \in 0..Len(d)}

\* filepath.Dir of a file.
Dir(f) == SubSeq(f, 1, Len(f) - 1)

RecordFile(path) == Append(path, "request")

BodyFile(path, name) == Append(path, name)

(***************************************************************************)
(* The two storage layouts.  The read side (LoadRequest) takes the flat    *)
(* file when it exists and the directory's request.json otherwise; the     *)
(* write side (SaveRequest) takes the directory's request.json when the    *)
(* directory exists and the flat file otherwise.                           *)
(***************************************************************************)
\* Mutant of ReadPath: the directory's request.json first.
ReadPathDirFirst(fs, path) ==
    IF FileExists(fs, RecordFile(path)) THEN RecordFile(path) ELSE path

ReadPath(fs, path) ==
    IF ~FileExists(fs, path) THEN RecordFile(path) ELSE path

\* Mutant of WritePath: the flat file, whether the directory exists or not.
WritePathFlat(ds, path) == path

WritePath(ds, path) ==
    IF path \in ds THEN RecordFile(path) ELSE path

\* LoadRequest: [err, config, file], file being the file it read.
LoadRequest(fs, path) ==
    LET filePath == ReadPath(fs, path)
        data == ReadFile(fs, filePath)
        parsed == UnmarshalRequest(data.content)
    IN  IF data.err # ""
        THEN [err |-> "reading config file: " \o data.err,
              config |-> ZeroConfig, file |-> filePath]
        ELSE IF parsed.err # ""
        THEN [err |-> "parsing config file", config |-> ZeroConfig, file |-> filePath]
        ELSE [err |-> "", config |-> parsed.config, file |-> filePath]

\* SaveRequest: [err, files, dirs], the workspace after the call.
SaveRequest(fs, ds, path, config) ==
    LET filePath == WritePath(ds, path)
        ds2 == IF path \in ds THEN ds ELSE MkdirAll(ds, Dir(path))
    IN  IF ~CanWrite(fs, filePath)
        THEN [err |-> "writing config file", files |-> fs, dirs |-> ds2]
        ELSE [err |-> "",
              files |-> WriteFile(fs, filePath, DocFile(MarshalRequest(config))),
              dirs |-> ds2]

\* DeleteRequest removes the flat file.
\* Mutant of DeleteRequest: the record of the directory layout goes as well.
DeleteRequestBoth(fs, ds, path) ==
    IF ~FileExists(fs, path)
    THEN [err |-> "deleting request file: notexist", files |-> fs, dirs |-> ds]
    ELSE [err |-> "", files |-> RemoveFile(RemoveFile(fs, path), RecordFile(path)),
          dirs |-> ds]

DeleteRequest(fs, ds, path) ==
    IF ~FileExists(fs, path)
    THEN [err |-> "deleting request file: notexist", files |-> fs, dirs |-> ds]
    ELSE [err |-> "", files |-> RemoveFile(fs, path), dirs |-> ds]

(***************************************************************************)
(* Body variants (config.go:511-579).                                      *)
(***************************************************************************)
NoBodyError == "body file does not exist"

\* Mutant of SetActiveBody: no check that the variant file exists.
SetActiveBodyUnchecked(fs, ds, path, name) ==
    LET loaded == LoadRequest(fs, path)
    IN  IF loaded.err # ""
        THEN [err |-> "loading request: " \o loaded.err, files |-> fs, dirs |-> ds]
        ELSE SaveRequest(fs, ds, path, [loaded.config EXCEPT !.ActiveBody = name])

SetActiveBody(fs, ds, path, name) ==
    LET loaded == LoadRequest(fs, path)
    IN  IF loaded.err # ""
        THEN [err |-> "loading request: " \o loaded.err, files |-> fs, dirs |-> ds]
        ELSE IF ~FileExists(fs, BodyFile(path, name))
        THEN [err |-> NoBodyError, files |-> fs, dirs |-> ds]
        ELSE SaveRequest(fs, ds, path, [loaded.config EXCEPT !.ActiveBody = name])

\* os.ReadDir of the request's directory: the *.json files in it.
DirEntries(fs, ds, d) ==
    IF d \in ds THEN {f[Len(f)] : f \in {g \in DOMAIN fs : Dir(g) = d}} ELSE {}

\* ListBodies: [err, bodies, active].
\* Mutant of ListBodies: request.json is listed with the variants.
ListBodiesAll(fs, ds, path) ==
    LET loaded == LoadRequest(fs, path)
    IN  IF loaded.err # ""
        THEN [err |-> "loading request: " \o loaded.err, bodies |-> {}, active |-> ""]
        ELSE [err |-> "",
              bodies |-> DirEntries(fs, ds, path),
              active |-> loaded.config.ActiveBody]

ListBodies(fs, ds, path) ==
    LET loaded == LoadRequest(fs, path)
    IN  IF loaded.err # ""
        THEN [err |-> "loading request: " \o loaded.err, bodies |-> {}, active |-> ""]
        ELSE [err |-> "",
              bodies |-> DirEntries(fs, ds, path) \ {"request"},
              active |-> loaded.config.ActiveBody]

\* Mutant of RemoveBody: a missing variant that is the active one is cleared
\* from the record before the error is returned.
RemoveBodyClearsMissing(fs, ds, path, name) ==
    LET bodyFilePath == BodyFile(path, name)
        fs1 == RemoveFile(fs, bodyFilePath)
        loaded == LoadRequest(fs1, path)
        cleared == SaveRequest(fs1, ds, path, [loaded.config EXCEPT !.ActiveBody = ""])
    IN  IF ~FileExists(fs, bodyFilePath)
        THEN IF loaded.err = "" /\ loaded.config.ActiveBody = name
             THEN [err |-> NoBodyError, files |-> cleared.files, dirs |-> cleared.dirs]
             ELSE [err |-> NoBodyError, files |-> fs, dirs |-> ds]
        ELSE IF loaded.err # ""
        THEN [err |-> "loading request: " \o loaded.err, files |-> fs1, dirs |-> ds]
        ELSE IF loaded.config.ActiveBody = name
        THEN SaveRequest(fs1, ds, path, [loaded.config EXCEPT !.ActiveBody = ""])
        ELSE [err |-> "", files |-> fs1, dirs |-> ds]

RemoveBody(fs, ds, path, name) ==
    LET bodyFilePath == BodyFile(path, name)
        fs1 == RemoveFile(fs, bodyFilePath)
        loaded == LoadRequest(fs1, path)
    IN  IF ~FileExists(fs, bodyFilePath)
        THEN [err |-> NoBodyError, files |-> fs, dirs |-> ds]
        ELSE IF loaded.err # ""
        THEN [err |-> "loading request: " \o loaded.err, files |-> fs1, dirs |-> ds]
        ELSE IF loaded.config.ActiveBody = name
        THEN SaveRequest(fs1, ds, path, [loaded.config EXCEPT !.ActiveBody = ""])
        ELSE [err |-> "", files |-> fs1, dirs |-> ds]

(***************************************************************************)
(* Environments (config.go:30-36, 243-276).  A URL, a variable's name and  *)
(* a variable's value are sequences of characters.                         *)
(***************************************************************************)
Environment(baseURL, headers, cookies, auth, variables) ==
    [BaseURL |-> baseURL, Headers |-> headers, Cookies |-> cookies,
     Auth |-> auth, Variables |-> variables]

ZeroEnvironment == Environment(<<>>, NilMap, NilMap, NilMap, NilMap)

MarshalEnvironment(env) ==
    [baseURL |-> SanitizeSeq(env.BaseURL),
     headers |-> MarshalMap(env.Headers),
     cookies |-> MarshalMap(env.Cookies),
     auth |-> MarshalMap(env.Auth),
     variables |-> IF env.Variables.nil THEN JSONNull
                   ELSE [null |-> FALSE, obj |-> env.Variables.kv]]

UnmarshalEnvironment(content) ==
    IF content.kind = "doc"
    THEN [err |-> "",
          env |-> Environment(Field(content.doc, "baseURL", <<>>),
                              UnmarshalMap(Field(content.doc, "headers", JSONNull)),
                              UnmarshalMap(Field(content.doc, "cookies", JSONNull)),
                              UnmarshalMap(Field(content.doc, "auth", JSONNull)),
                              UnmarshalMap(Field(content.doc, "variables", JSONNull)))]
    ELSE IF content.text \in JSONObjectTexts
    THEN [err |-> "", env |-> ZeroEnvironment]
    ELSE [err |-> "parse", env |-> ZeroEnvironment]

\* LoadEnvironment: [err, env].
LoadEnvironment(es, name) ==
    LET data == ReadFile(es, name)
        parsed == UnmarshalEnvironment(data.content)
    IN  IF data.err # ""
        THEN [err |-> "reading environment file: " \o data.err, env |-> ZeroEnvironment]
        ELSE IF parsed.err # ""
        THEN [err |-> "parsing environment file", env |-> ZeroEnvironment]
        ELSE [err |-> "", env |-> parsed.env]

(***************************************************************************)
(* ExecuteRequest (config.go:391-509).  Go ranges over a map in an order   *)
(* it does not fix: each loop over a map takes its order as a choice.      *)
(***************************************************************************)
\* The orders a range over the map m may take.
Orders(m) ==
    LET keys == DOMAIN m.kv
        n == Cardinality(keys)
    IN  {o \in [1..n -> keys] : \A i, j \in 1..n : i # j => o[i] # o[j]}

\* strings.ReplaceAll: the occurrences of old (never empty here) that do not
\* overlap, from the left.
RECURSIVE ReplaceAll(_, _, _)
ReplaceAll(str, old, new) ==
    IF Len(str) < Len(old) THEN str
    ELSE IF SubSeq(str, 1, Len(old)) = old
    THEN new \o ReplaceAll(SubSeq(str, Len(old) + 1, Len(str)), old, new)
    ELSE <<Head(str)>> \o ReplaceAll(Tail(str), old, new)

Placeholder(key) == <<"{", "{">> \o key \o <<"}", "}">>

RECURSIVE Substitute(_, _, _)
Substitute(url, variables, order) ==
    IF order = <<>> THEN url
    ELSE Substitute(ReplaceAll(url, Placeholder(Head(order)), variables.kv[Head(order)]),
                    variables, Tail(order))

StripSlash(baseURL) ==
    IF baseURL # <<>> /\ baseURL[Len(baseURL)] = "/"
    THEN SubSeq(baseURL, 1, Len(baseURL) - 1)
    ELSE baseURL

\* config.go:404-415.
FullURL(config, env, order) ==
    Substitute(StripSlash(env.BaseURL) \o config.URL, env.Variables, order)

\* config.go:417-428: the body as a file's content, an inline body being a text.
\* Mutant of BodyToUse: a variant that cannot be read gives no body.
BodyToUseNoFallback(fs, ds, requestPath, config) ==
    LET bodyData == ReadFile(fs, BodyFile(requestPath, config.ActiveBody))
    IN  IF config.ActiveBody = "" THEN TextFile(config.Body)
        ELSE IF requestPath \in ds /\ bodyData.err = "" THEN bodyData.content
        ELSE TextFile("")

\* Mutant of BodyToUse: the inline body, whatever activeBody says.
BodyToUseInline(fs, ds, requestPath, config) == TextFile(config.Body)

BodyToUse(fs, ds, requestPath, config) ==
    LET bodyData == ReadFile(fs, BodyFile(requestPath, config.ActiveBody))
    IN  IF config.ActiveBody # "" /\ requestPath \in ds /\ bodyData.err = ""
        THEN bodyData.content
        ELSE TextFile(config.Body)

\* http.NewRequest fails on a method that is no token and on a URL that does
\* not parse (here: one with a control character); an empty method is GET.
ControlChar == "<0x7F>"

ValidMethods == {"", "GET", "POST", "PUT", "DELETE", "PATCH"}

URLParses(url) == \A i \in 1..Len(url) : url[i] # ControlChar

\* textproto.CanonicalMIMEHeaderKey, the key a http.Header stores.
CanonicalHeaderKey(k) ==
    CASE k = "x-a" -> "X-A"
      [] k = "x-b" -> "X-B"
      [] k = "x-c" -> "X-C"
      [] k = "authorization" -> "Authorization"
      [] k = "x-api-key" -> "X-Api-Key"
      [] k = "X-API-Key" -> "X-Api-Key"
      [] k = "content-type" -> "Content-Type"
      [] OTHER -> k

\* Mutant of HeaderSet: Header.Add's effect on a key already set: it stays.
HeaderSetKeepFirst(h, k, v) ==
    LET key == CanonicalHeaderKey(k)
    IN  IF key \in DOMAIN h THEN h
        ELSE [x \in DOMAIN h \cup {key} |-> IF x = key THEN v ELSE h[x]]

\* req.Header.Set(k, v).
HeaderSet(h, k, v) ==
    LET key == CanonicalHeaderKey(k)
    IN  [x \in DOMAIN h \cup {key} |-> IF x = key THEN v ELSE h[x]]

\* for key, value := range m { if value != "" { req.Header.Set(key, value) } }
RECURSIVE ApplyHeaders(_, _, _)
ApplyHeaders(h, m, order) ==
    IF order = <<>> THEN h
    ELSE ApplyHeaders(IF m.kv[Head(order)] # ""
                      THEN HeaderSet(h, Head(order), m.kv[Head(order)])
                      ELSE h,
                      m, Tail(order))

\* for name, value := range m { if value != "" { req.AddCookie(...) } }
RECURSIVE ApplyCookies(_, _, _)
ApplyCookies(cookies, m, order) ==
    IF order = <<>> THEN cookies
    ELSE ApplyCookies(IF m.kv[Head(order)] # ""
                      THEN Append(cookies, [name |-> Head(order),
                                            value |-> m.kv[Head(order)]])
                      ELSE cookies,
                      m, Tail(order))

Has(m, k) == k \in DOMAIN m.kv

NonEmpty(m, k) == Has(m, k) /\ m.kv[k] # ""

\* req.SetBasicAuth: the credentials, base64 left out.
BasicCredentials(username, password) == "Basic " \o username \o ":" \o password

\* Mutant of ApplyAuth: a header the request already carries is kept.
ApplyAuthKeepFirst(h, auth) ==
    IF ~NonEmpty(auth, "type") THEN h
    ELSE CASE auth.kv["type"] = "bearer" ->
                IF NonEmpty(auth, "token")
                THEN HeaderSetKeepFirst(h, "Authorization", "Bearer " \o auth.kv["token"])
                ELSE h
           [] auth.kv["type"] = "basic" ->
                IF Has(auth, "username") /\ Has(auth, "password")
                THEN HeaderSetKeepFirst(h, "Authorization",
                                        BasicCredentials(auth.kv["username"],
                                                         auth.kv["password"]))
                ELSE h
           [] auth.kv["type"] = "api-key" ->
                IF NonEmpty(auth, "key") /\ NonEmpty(auth, "header")
                THEN HeaderSetKeepFirst(h, auth.kv["header"], auth.kv["key"])
                ELSE h
           [] OTHER -> h

\* Mutant of ApplyAuth: a switch whose cases fall through to the next.
ApplyAuthFallThrough(h, auth) ==
    LET type == IF NonEmpty(auth, "type") THEN auth.kv["type"] ELSE ""
        h1 == IF type = "bearer" /\ NonEmpty(auth, "token")
              THEN HeaderSet(h, "Authorization", "Bearer " \o auth.kv["token"])
              ELSE h
        h2 == IF type \in {"bearer", "basic"}
                 /\ Has(auth, "username") /\ Has(auth, "password")
              THEN HeaderSet(h1, "Authorization",
                             BasicCredentials(auth.kv["username"], auth.kv["password"]))
              ELSE h1
    IN  IF type \in {"bearer", "basic", "api-key"}
           /\ NonEmpty(auth, "key") /\ NonEmpty(auth, "header")
        THEN HeaderSet(h2, auth.kv["header"], auth.kv["key"])
        ELSE h2

\* config.go:477-497.
ApplyAuth(h, auth) ==
    IF ~NonEmpty(auth, "type") THEN h
    ELSE CASE auth.kv["type"] = "bearer" ->
                IF NonEmpty(auth, "token")
                THEN HeaderSet(h, "Authorization", "Bearer " \o auth.kv["token"])
                ELSE h
           [] auth.kv["type"] = "basic" ->
                IF Has(auth, "username") /\ Has(auth, "password")
                THEN HeaderSet(h, "Authorization",
                               BasicCredentials(auth.kv["username"], auth.kv["password"]))
                ELSE h
           [] auth.kv["type"] = "api-key" ->
                IF NonEmpty(auth, "key") /\ NonEmpty(auth, "header")
                THEN HeaderSet(h, auth.kv["header"], auth.kv["key"])
                ELSE h
           [] OTHER -> h

DefaultTimeout == 30

\* config.go:499-503, in seconds.
EffectiveTimeout(config) ==
    IF config.Timeout = 0 THEN DefaultTimeout ELSE config.Timeout

\* client.Do sends nothing to a URL that is not http(s)://host...
Schemes == {"http://", "https://"}

CanSend(url) == Len(url) >= 2 /\ url[1] \in Schemes /\ url[2] # "/"

\* What the transport reports for the exchange.
TransportOutcomes == {"response", "timeout", "connection refused"}

\* http.Client has no CheckRedirect here: client.Do follows the redirects the
\* server answers with, one more HTTP call each, before the exchange ends.
MaxRedirects == 1

NoRequest ==
    [method |-> "", url |-> <<>>, headers |-> EmptyFcn, cookies |-> <<>>,
     body |-> TextFile(""), timeout |-> 0]

\* The choices of one execution: the order of each range over a map, and
\* what the transport reports.
ExecChoices(config, env) ==
    [variables : Orders(env.Variables),
     envHeaders : Orders(env.Headers), headers : Orders(config.Headers),
     envCookies : Orders(env.Cookies), cookies : Orders(config.Cookies),
     redirects : 0..MaxRedirects, transport : TransportOutcomes]

\* config.go:404-506: the request built from a loaded record and environment.
BuildRequest(fs, ds, requestPath, config, env, ch) ==
    [method |-> IF config.Method = "" THEN "GET" ELSE config.Method,
     url |-> FullURL(config, env, ch.variables),
     headers |-> ApplyAuth(ApplyHeaders(ApplyHeaders(EmptyFcn, env.Headers,
                                                     ch.envHeaders),
                                        config.Headers, ch.headers),
                           env.Auth),
     cookies |-> ApplyCookies(ApplyCookies(<<>>, env.Cookies, ch.envCookies),
                              config.Cookies, ch.cookies),
     body |-> BodyToUse(fs, ds, requestPath, config),
     timeout |-> EffectiveTimeout(config)]

\* ExecuteRequest: [err, calls, followed, req]: the error, how many calls
\* ExecuteRequest made, how many redirects the client followed after it, and
\* the request that was built.
\* Mutant of ExecuteLoaded: a failed exchange is tried once more.
ExecuteLoadedRetry(fs, ds, requestPath, config, env, ch) ==
    LET req == BuildRequest(fs, ds, requestPath, config, env, ch)
    IN  IF config.Method \notin ValidMethods \/ ~URLParses(req.url)
        THEN [err |-> "creating request", calls |-> 0, followed |-> 0,
              req |-> NoRequest]
        ELSE IF ~CanSend(req.url)
        THEN [err |-> "unsupported protocol scheme", calls |-> 0, followed |-> 0,
              req |-> req]
        ELSE [err |-> IF ch.transport = "response" THEN "" ELSE ch.transport,
              calls |-> IF ch.transport = "response" THEN 1 ELSE 2,
              followed |-> ch.redirects, req |-> req]

ExecuteLoaded(fs, ds, requestPath, config, env, ch) ==
    LET req == BuildRequest(fs, ds, requestPath, config, env, ch)
    IN  IF config.Method \notin ValidMethods \/ ~URLParses(req.url)
        THEN [err |-> "creating request", calls |-> 0, followed |-> 0,
              req |-> NoRequest]
        ELSE IF ~CanSend(req.url)
        THEN [err |-> "unsupported protocol scheme", calls |-> 0, followed |-> 0,
              req |-> req]
        ELSE [err |-> IF ch.transport = "response" THEN "" ELSE ch.transport,
              calls |-> 1, followed |-> ch.redirects, req |-> req]

ExecuteRequest(fs, ds, es, requestPath, envName, ch) ==
    LET loaded == LoadRequest(fs, requestPath)
        env == LoadEnvironment(es, envName)
    IN  IF loaded.err # ""
        THEN [err |-> "loading request: " \o loaded.err, calls |-> 0, followed |-> 0,
              req |-> NoRequest]
        ELSE IF env.err # ""
        THEN [err |-> "loading environment: " \o env.err, calls |-> 0, followed |-> 0,
              req |-> NoRequest]
        ELSE ExecuteLoaded(fs, ds, requestPath, loaded.config, env.env, ch)

(***************************************************************************)
(* ListRequests (config.go:204-241): every .json file below the requests   *)
(* directory, its path without the extension, under the directory it is    *)
(* in, in the order of the walk.                                           *)
(***************************************************************************)
\* The names of the model in lexical order, the order of filepath.WalkDir.
NameOrder == <<"a", "b", "c", "d", "get-users", "request", "users">>

Rank(name) == CHOOSE i \in 1..Len(NameOrder) : NameOrder[i] = name

RECURSIVE WalkedBefore(_, _)
WalkedBefore(f, g) ==
    IF f = <<>> THEN g # <<>>
    ELSE IF g = <<>> THEN FALSE
    ELSE IF Head(f) = Head(g) THEN WalkedBefore(Tail(f), Tail(g))
    ELSE Rank(Head(f)) < Rank(Head(g))

\* The paths of S in the order the walk visits them.
RECURSIVE InWalkOrder(_)
InWalkOrder(S) ==
    IF S = {} THEN <<>>
    ELSE LET first == CHOOSE f \in S : \A g \in S \ {f} : WalkedBefore(f, g)
         IN  <<first>> \o InWalkOrder(S \ {first})

\* Mutant of GroupName: every request under the group of the top level.
GroupNameRoot(dir) == <<"root">>

\* dir := filepath.Dir(relPath); if dir == "." { dir = "root" }
GroupName(dir) == IF dir = <<>> THEN <<"root">> ELSE dir

\* ListRequests: [err, requests].
ListRequests(fs, ds) ==
    IF <<>> \notin ds THEN [err |-> "notexist", requests |-> EmptyFcn]
    ELSE [err |-> "",
          requests |-> [group \in {GroupName(Dir(f)) : f \in DOMAIN fs} |->
                           InWalkOrder({f \in DOMAIN fs : GroupName(Dir(f)) = group})]]

(***************************************************************************)
(* NewConfigManager and initializeDefaultFiles (config.go:44-145).         *)
(***************************************************************************)
SampleRequest ==
    RequestConfig("Get Users (this is a sample request so you wont think this is a dead project)",
                  "Fetch all users from the API", "GET", <<"/", "users">>,
                  MakeMap(EmptyFcn), MakeMap(EmptyFcn), "", "",
                  MakeMap(EmptyFcn), 30)

SamplePath == <<"users", "get-users">>

DefaultEnvironment(host) ==
    Environment(host,
                MakeMap([k \in {"Content-Type"} |-> "application/json"]),
                MakeMap(EmptyFcn), MakeMap(EmptyFcn),
                MakeMap([k \in {<<"host">>} |-> Tail(host)]))

DefaultEnvs ==
    [name \in {"dev", "prod"} |->
        DocFile(MarshalEnvironment(
            IF name = "dev" THEN DefaultEnvironment(<<"http://", "localhost:3000">>)
            ELSE DefaultEnvironment(<<"https://", "api.example.com">>)))]

\* Mutant of SeedEnvironments: the default environments are always written.
SeedEnvironmentsOverwrite(es) ==
    [name \in DOMAIN es \cup DOMAIN DefaultEnvs |->
        IF name \in DOMAIN DefaultEnvs THEN DefaultEnvs[name] ELSE es[name]]

\* config.go:101-114: each default environment whose file does not exist.
SeedEnvironments(es) ==
    [name \in DOMAIN es \cup DOMAIN DefaultEnvs |->
        IF FileExists(es, name) THEN es[name] ELSE DefaultEnvs[name]]

\* os.ReadDir(cm.requestsDir): the files and the directories of the top level.
RootEntries(fs, ds) ==
    {<<"file", f>> : f \in {g \in DOMAIN fs : Len(g) = 1}}
    \cup {<<"dir", d>> : d \in {e \in ds : Len(e) = 1}}

\* Mutant of SeedRequests: the sample request is written when it is missing.
SeedRequestsIfMissing(fs, ds) ==
    IF ~FileExists(fs, SamplePath) /\ SamplePath \notin ds
    THEN SaveRequest(fs, MkdirAll(ds, Dir(SamplePath)), SamplePath, SampleRequest)
    ELSE [err |-> "", files |-> fs, dirs |-> ds]

\* config.go:116-144: the sample request, if the requests directory is empty.
SeedRequests(fs, ds) ==
    IF RootEntries(fs, ds) = {}
    THEN SaveRequest(fs, MkdirAll(ds, Dir(SamplePath)), SamplePath, SampleRequest)
    ELSE [err |-> "", files |-> fs, dirs |-> ds]

\* NewConfigManager: [err, files, dirs, envs].
NewConfigManager(fs, ds, es) ==
    LET seeded == SeedRequests(fs, MkdirAll(ds, <<>>))
    IN  [err |-> IF seeded.err = "" THEN ""
                 ELSE "initializing default files: " \o seeded.err,
         files |-> seeded.files, dirs |-> seeded.dirs,
         envs |-> SeedEnvironments(es)]

(***************************************************************************)
(* GenerateRequestsFromOpenAPI (config.go:584-666).  A document gives its  *)
(* title and, for some paths and methods, an operation: its operationId    *)
(* ("" for none) and whether it has a request body.                        *)
(***************************************************************************)
GeneratedMethods == {"GET", "POST", "PUT", "DELETE", "PATCH"}

\* strings.ToLower, on the strings of the model.
ToLower(str) ==
    CASE str = "GET" -> "get"
      [] str = "POST" -> "post"
      [] str = "PUT" -> "put"
      [] str = "DELETE" -> "delete"
      [] str = "PATCH" -> "patch"
      [] str = "listUsers" -> "listusers"
      [] str = "ListUsers" -> "listusers"
      [] str = "Pet-Store" -> "pet-store"
      [] OTHER -> str

\* strings.ReplaceAll(spec.Info.Title, " ", "-"), on the titles of the model.
Dashed(title) == IF title = "Pet Store" THEN "Pet-Store" ELSE title

\* config.go:586-589.
SpecTitle(title) == IF title = "" THEN "api" ELSE ToLower(Dashed(title))

\* strings.ReplaceAll(strings.Trim(path, "/"), "/", "-"), the path given by
\* its segments.
RECURSIVE JoinDash(_)
JoinDash(path) ==
    IF path = <<>> THEN ""
    ELSE IF Len(path) = 1 THEN path[1]
    ELSE path[1] \o "-" \o JoinDash(Tail(path))

\* The path as the document writes it: /users/me.
RECURSIVE PathURL(_)
PathURL(path) ==
    IF path = <<>> THEN <<>> ELSE <<"/", Head(path)>> \o PathURL(Tail(path))

\* Mutant of RequestName: the name always comes from the method and path.
RequestNameDerived(op) == ToLower(op.method) \o "-" \o ToLower(JoinDash(op.path))

\* config.go:613-617.
RequestName(op) ==
    IF op.operationID # "" THEN ToLower(op.operationID)
    ELSE ToLower(op.method) \o "-" \o ToLower(JoinDash(op.path))

\* config.go:627-648: the keys url, headers, body, method and name.
RequestInfo(op) ==
    LET withBody == op.method \in {"POST", "PUT", "PATCH"}
    IN  [url |-> PathURL(op.path),
         headers |-> [null |-> FALSE,
                      obj |-> IF withBody
                              THEN [k \in {"Content-Type"} |-> "application/json"]
                              ELSE EmptyFcn],
         body |-> IF withBody /\ op.requestBody THEN ExampleBody ELSE "",
         method |-> op.method,
         name |-> RequestName(op)]

\* The operations of a document: one for each path and method that has one.
Operations(doc) ==
    {[path |-> slot[1], method |-> slot[2],
      operationID |-> doc.operations[slot].operationID,
      requestBody |-> doc.operations[slot].requestBody] :
        slot \in DOMAIN doc.operations}

\* The two ranges over maps take the operations in no fixed order: of the
\* operations that get the same name, any may be the last to write.
LastWriters(doc) ==
    LET names == {RequestName(op) : op \in Operations(doc)}
    IN  {w \in [names -> Operations(doc)] : \A n \in names : RequestName(w[n]) = n}

\* The files of the request directories named in names, as the operations
\* that write them last leave them.
WriteRequestFiles(fs, specDir, writers, names) ==
    LET requestFiles == {RecordFile(Append(specDir, n)) : n \in names}
    IN  [f \in DOMAIN fs \cup requestFiles |->
            IF f \in requestFiles THEN DocFile(RequestInfo(writers[f[2]])) ELSE fs[f]]

\* GenerateRequestsFromOpenAPI: [err, files, dirs].  A request file that
\* cannot be written ends the generation, after the directories and files
\* of the operations that came before it (written) and its own directory.
GenerateRequestsFromOpenAPI(fs, ds, doc, writers, written) ==
    LET specDir == <<SpecTitle(doc.title)>>
        names == DOMAIN writers
        failing == {n \in names : ~CanWrite(fs, RecordFile(Append(specDir, n)))}
    IN  IF failing = {}
        THEN [err |-> "",
              files |-> WriteRequestFiles(fs, specDir, writers, names),
              dirs |-> ds \cup {<<>>, specDir} \cup {Append(specDir, n) : n \in names}]
        ELSE [err |-> "writing request file",
              files |-> WriteRequestFiles(fs, specDir, writers, written \ failing),
              dirs |-> ds \cup {<<>>, specDir}
                         \cup {Append(specDir, n) : n \in written \ failing}
                         \cup {Append(specDir, CHOOSE n \in failing : TRUE)}]

(***************************************************************************)
(* The workspaces the model starts from: the request a in either layout or *)
(* both, with variant files beside it, as the tool, the generator or the   *)
(* user's editor leave them.                                               *)
(***************************************************************************)
InlineBody == "{\"inline\": true}"

\* A record as SaveRequest writes it, with the given activeBody.
DiskRecord(active) ==
    RequestConfig("Get Users", "Fetch all users", "GET", <<"/", "users">>,
                  MakeMap(EmptyFcn), MakeMap(EmptyFcn), InlineBody, active,
                  MakeMap(EmptyFcn), 30)

\* request.json as GenerateRequestsFromOpenAPI writes it (config.go:627-639):
\* the keys url, headers, body, method and name only.
GeneratedDoc ==
    [url |-> <<"/", "users">>, headers |-> [null |-> FALSE, obj |-> EmptyFcn],
     body |-> "", method |-> "GET", name |-> "get-users"]

\* What the flat file, the directory's request.json and a variant file hold.
RecordContents ==
    {DocFile(MarshalRequest(DiskRecord(n))) : n \in BodyNames \cup {""}}
    \cup {TextFile(NotJSON)}

VariantContents == {TextFile(ExampleBody), NoPermFile}

InitContents(f) ==
    IF f = TopPath THEN RecordContents
    ELSE IF f = RecordFile(TopPath)
    THEN RecordContents \cup {DocFile(GeneratedDoc), NoPermFile}
    ELSE VariantContents

InitFilePaths == {TopPath} \cup {BodyFile(TopPath, n) : n \in BodyNames}

\* Every file lies in a directory that exists.
WellFormed(fs, ds) ==
    /\ <<>> \in ds
    /\ \A f \in DOMAIN fs : Dir(f) \in ds
    /\ \A d \in ds : d # <<>> => Dir(d) \in ds

Workspaces ==
    {w \in [files : UNION {[S -> UNION {InitContents(f) : f \in InitFilePaths}] :
                             S \in SUBSET InitFilePaths},
            dirs : {{<<>>}, {<<>>, TopPath}}] :
        /\ WellFormed(w.files, w.dirs)
        /\ \A f \in DOMAIN w.files : w.files[f] \in InitContents(f)}

EnvNames == {"dev", "prod", "staging"}

\* No operation is running concurrently.
NoProcs == <<>>

\* The terminal interface is not running.
NoTUI == <<>>

NoCall == [op |-> "", path |-> <<>>, name |-> "", env |-> "", config |-> ZeroConfig,
           err |-> "", out |-> {}, pfiles |-> EmptyFcn, pdirs |-> {},
           penvs |-> EmptyFcn]

Call(op, path, name, env, config, err, out) ==
    [op |-> op, path |-> path, name |-> name, env |-> env, config |-> config,
     err |-> err, out |-> out, pfiles |-> files, pdirs |-> dirs, penvs |-> envs]

(***************************************************************************)
(* The operations, one action each.                                        *)
(***************************************************************************)
SaveRecords == {DiskRecord(""), DiskRecord("b")}

LoadRequestAct ==
    \E path \in ReqPaths :
        LET r == LoadRequest(files, path)
        IN  /\ last' = Call("LoadRequest", path, "", "", ZeroConfig, r.err, r)
            /\ UNCHANGED <<files, dirs, envs, procs, tui>>

SaveRequestOf(records) ==
    \E path \in ReqPaths, config \in records :
        LET r == SaveRequest(files, dirs, path, config)
        IN  /\ files' = r.files
            /\ dirs' = r.dirs
            /\ last' = Call("SaveRequest", path, "", "", config, r.err, {})
            /\ UNCHANGED <<envs, procs, tui>>

SaveRequestAct == SaveRequestOf(SaveRecords)

DeleteRequestAct ==
    \E path \in ReqPaths :
        LET r == DeleteRequest(files, dirs, path)
        IN  /\ files' = r.files
            /\ dirs' = r.dirs
            /\ last' = Call("DeleteRequest", path, "", "", ZeroConfig, r.err, {})
            /\ UNCHANGED <<envs, procs, tui>>

SetActiveBodyAct ==
    \E path \in ReqPaths, name \in BodyNames :
        LET r == SetActiveBody(files, dirs, path, name)
        IN  /\ files' = r.files
            /\ dirs' = r.dirs
            /\ last' = Call("SetActiveBody", path, name, "", ZeroConfig, r.err, {})
            /\ UNCHANGED <<envs, procs, tui>>

ListBodiesAct ==
    \E path \in ReqPaths :
        LET r == ListBodies(files, dirs, path)
        IN  /\ last' = Call("ListBodies", path, "", "", ZeroConfig, r.err, r)
            /\ UNCHANGED <<files, dirs, envs, procs, tui>>

\* Mutant of ExecuteRequestAct: an activeBody that names no file is cleared
\* in the stored record.
ExecuteRequestRepairAct ==
    \E path \in ReqPaths, envName \in EnvNames :
        \E ch \in ExecChoices(LoadRequest(files, path).config,
                              LoadEnvironment(envs, envName).env) :
            LET r == ExecuteRequest(files, dirs, envs, path, envName, ch)
                loaded == LoadRequest(files, path)
                stale == /\ loaded.err = ""
                         /\ loaded.config.ActiveBody # ""
                         /\ ~FileExists(files, BodyFile(path, loaded.config.ActiveBody))
                saved == SaveRequest(files, dirs, path,
                                     [loaded.config EXCEPT !.ActiveBody = ""])
            IN  /\ last' = Call("ExecuteRequest", path, "", envName, ZeroConfig, r.err, r)
                /\ files' = IF stale THEN saved.files ELSE files
                /\ dirs' = IF stale THEN saved.dirs ELSE dirs
                /\ UNCHANGED <<envs, procs, tui>>

\* The choices are those of the record and the environment that load.
ExecuteRequestAct ==
    \E path \in ReqPaths, envName \in EnvNames :
        \E ch \in ExecChoices(LoadRequest(files, path).config,
                              LoadEnvironment(envs, envName).env) :
            LET r == ExecuteRequest(files, dirs, envs, path, envName, ch)
            IN  /\ last' = Call("ExecuteRequest", path, "", envName, ZeroConfig, r.err, r)
                /\ UNCHANGED <<files, dirs, envs, procs, tui>>

RemoveBodyAct ==
    \E path \in ReqPaths, name \in BodyNames :
        LET r == RemoveBody(files, dirs, path, name)
        IN  /\ files' = r.files
            /\ dirs' = r.dirs
            /\ last' = Call("RemoveBody", path, name, "", ZeroConfig, r.err, {})
            /\ UNCHANGED <<envs, procs, tui>>

ListRequestsAct ==
    LET r == ListRequests(files, dirs)
    IN  /\ last' = Call("ListRequests", <<>>, "", "", ZeroConfig, r.err, r)
        /\ UNCHANGED <<files, dirs, envs, procs, tui>>

NewConfigManagerAct ==
    LET r == NewConfigManager(files, dirs, envs)
    IN  /\ files' = r.files
        /\ dirs' = r.dirs
        /\ envs' = r.envs
        /\ last' = Call("NewConfigManager", <<>>, "", "", ZeroConfig, r.err, {})
        /\ UNCHANGED <<procs, tui>>

Init ==
    /\ \E w \in Workspaces : files = w.files /\ dirs = w.dirs
    /\ envs = DefaultEnvs
    /\ last = NoCall
    /\ procs = NoProcs
    /\ tui = NoTUI

Next ==
    \/ LoadRequestAct
    \/ SaveRequestAct
    \/ DeleteRequestAct
    \/ SetActiveBodyAct
    \/ ListBodiesAct
    \/ RemoveBodyAct
    \/ ExecuteRequestAct
    \/ ListRequestsAct

Spec == Init /\ [][Next]_vars

(***************************************************************************)
(* Body variants alone: any sequence of SetActiveBody and RemoveBody calls *)
(* from a workspace in which every record file's activeBody is empty or    *)
(* names a variant file that exists.                                       *)
(***************************************************************************)
NamesExistingVariant(fs, path, config) ==
    config.ActiveBody = "" \/ FileExists(fs, BodyFile(path, config.ActiveBody))

\* Both record files of every request, where they parse.
RecordFilesConsistent(fs) ==
    \A path \in ReqPaths : \A f \in {path, RecordFile(path)} :
        (ReadFile(fs, f).err = "" /\ UnmarshalRequest(fs[f]).err = "")
            => NamesExistingVariant(fs, path, UnmarshalRequest(fs[f]).config)

InitBodies ==
    /\ \E w \in Workspaces :
          /\ RecordFilesConsistent(w.files)
          /\ files = w.files
          /\ dirs = w.dirs
    /\ envs = DefaultEnvs
    /\ last = NoCall
    /\ procs = NoProcs
    /\ tui = NoTUI

NextBodies ==
    \/ SetActiveBodyAct
    \/ RemoveBodyAct

SpecBodies == InitBodies /\ [][NextBodies]_vars

(***************************************************************************)
(* The claims.                                                             *)
(***************************************************************************)
Called(op) == last.op = op

Succeeded(op) == last.op = op /\ last.err = ""

\* What LoadRequest returned, or would return, before and after the last call.
LoadedBefore == LoadRequest(last.pfiles, last.path)

LoadedAfter == LoadRequest(files, last.path)

\* C1: the active-body invariant.  After any sequence of SetActiveBody and
\* RemoveBody calls, the record LoadRequest returns for a request has an
\* activeBody that is empty or names a variant file that exists.
C1_ActiveBodyInvariant ==
    \A path \in ReqPaths :
        LoadRequest(files, path).err = ""
            => NamesExistingVariant(files, path, LoadRequest(files, path).config)

\* C2: SetActiveBody persists the pointer.  After a SetActiveBody(path, name)
\* that returned no error, LoadRequest(path) and ListBodies(path) report
\* activeBody = name.
C2_SetActiveBodyPersists ==
    Succeeded("SetActiveBody") =>
        /\ LoadedAfter.err = ""
        /\ LoadedAfter.config.ActiveBody = last.name
        /\ ListBodies(files, dirs, last.path).active = last.name

\* C3: RemoveBody of the active variant clears the pointer.  If LoadRequest
\* reported activeBody = name before a RemoveBody(path, name) that returned no
\* error, the variant file is gone and LoadRequest returns the same record
\* with activeBody empty.
C3_RemoveActiveClears ==
    (/\ Succeeded("RemoveBody")
     /\ LoadedBefore.err = ""
     /\ LoadedBefore.config.ActiveBody = last.name) =>
        /\ ~FileExists(files, BodyFile(last.path, last.name))
        /\ LoadedAfter.err = ""
        /\ LoadedAfter.config = [LoadedBefore.config EXCEPT !.ActiveBody = ""]

\* C4 as claimed: SetActiveBody fails with the validation error if and only
\* if the variant file does not exist at call time, and a failed call leaves
\* the stored record unchanged in both layouts.
C4_ValidationIffMissing ==
    Called("SetActiveBody") =>
        /\ (last.err = NoBodyError)
              <=> ~FileExists(last.pfiles, BodyFile(last.path, last.name))
        /\ last.err # "" => (files = last.pfiles /\ dirs = last.pdirs)

\* C4 as amended: the request is loaded first.  If LoadRequest fails,
\* SetActiveBody fails with that error whether the variant file exists or
\* not; if it succeeds, SetActiveBody fails with the validation error if and
\* only if the variant file does not exist.  A failed call leaves the stored
\* record unchanged in both layouts.
C4_ValidationAfterLoad ==
    Called("SetActiveBody") =>
        /\ LoadedBefore.err # "" => last.err = "loading request: " \o LoadedBefore.err
        /\ LoadedBefore.err = "" =>
              ((last.err = NoBodyError)
                  <=> ~FileExists(last.pfiles, BodyFile(last.path, last.name)))
        /\ last.err # "" => (files = last.pfiles /\ dirs = last.pdirs)

\* C4's case: a request that loads, and a variant file that does not exist.
C4_Witness ==
    /\ Called("SetActiveBody")
    /\ LoadedBefore.err = ""
    /\ ~FileExists(last.pfiles, BodyFile(last.path, last.name))
    /\ last.err = NoBodyError

\* C5: read resolution.  LoadRequest reads the flat file when it exists and
\* the directory's request.json otherwise, and fails with a not-found error
\* exactly when neither file exists.
C5_ReadResolution ==
    Called("LoadRequest") =>
        LET flat == last.path
            sub == RecordFile(last.path)
            read == IF FileExists(files, flat) THEN flat ELSE sub
        IN  /\ last.out.file = read
            /\ last.err = "" =>
                  /\ FileExists(files, read)
                  /\ last.out.config = UnmarshalRequest(files[read]).config
            /\ (last.err = "reading config file: notexist")
                  <=> (~FileExists(files, flat) /\ ~FileExists(files, sub))

\* C5's case: no flat file, and the record is read from the directory.
C5_Witness ==
    /\ Succeeded("LoadRequest")
    /\ ~FileExists(files, last.path)
    /\ last.out.config.ActiveBody = "b"

\* What one SaveRequest(path, config) call does to the workspace.
SavedInDirectory ==
    /\ last.err = "" =>
          files = WriteFile(last.pfiles, RecordFile(last.path),
                            DocFile(MarshalRequest(last.config)))
    /\ last.err # "" => files = last.pfiles
    /\ dirs = last.pdirs

SavedFlat ==
    /\ last.err = "" =>
          files = WriteFile(last.pfiles, last.path,
                            DocFile(MarshalRequest(last.config)))
    /\ last.err # "" => files = last.pfiles
    /\ last.pdirs \subseteq dirs
    /\ Dir(last.path) \in dirs
    /\ last.path \notin dirs

SaveResolution ==
    IF last.path \in last.pdirs THEN SavedInDirectory ELSE SavedFlat

\* C6 as claimed: SaveRequest writes the directory's request.json, and leaves
\* the flat file alone, when the directory exists; otherwise it writes the
\* flat file and does not create the directory.  Hence over any sequence of
\* saves a request with a directory keeps one and a request without one
\* stays without.
C6_WriteResolutionSticky ==
    Called("SaveRequest") =>
        /\ SaveResolution
        /\ \A p \in ReqPaths :
              /\ p \in last.pdirs => p \in dirs
              /\ (FileExists(last.pfiles, p) /\ p \notin last.pdirs) => p \notin dirs

\* C6 as amended: the same for one call, and over any sequence of saves of
\* one path that request keeps its layout.  A save creates the directories
\* above its flat file, so saving a/b gives the request a a directory.
C6_WriteResolutionOwnPath ==
    Called("SaveRequest") =>
        /\ SaveResolution
        /\ (last.path \in dirs) <=> (last.path \in last.pdirs)
        /\ \A d \in dirs \ last.pdirs :
              Len(d) < Len(last.path) /\ d = SubSeq(last.path, 1, Len(d))

\* C6's case: both layouts exist, and the save goes to the directory.
C6_Witness ==
    /\ Succeeded("SaveRequest")
    /\ last.path \in last.pdirs
    /\ FileExists(last.pfiles, last.path)
    /\ files[RecordFile(last.path)] # files[last.path]

(***************************************************************************)
(* The round trip: records of every shape saved, then loaded.              *)
(***************************************************************************)
RoundTripBase == DiskRecord("")

RoundTripRecords ==
    {RoundTripBase,
     [RoundTripBase EXCEPT !.ActiveBody = "b"],
     [RoundTripBase EXCEPT !.Headers = NilMap, !.Cookies = NilMap, !.Params = NilMap,
                           !.Timeout = 0, !.Body = ""],
     [RoundTripBase EXCEPT !.Headers = MakeMap([k \in {"X-A"} |-> "1"]),
                           !.Params = MakeMap([k \in {"limit"} |-> GoFloat("10")])],
     [RoundTripBase EXCEPT !.Params = MakeMap([k \in {"q"} |-> GoString("x")])],
     [RoundTripBase EXCEPT !.Params = MakeMap([k \in {"limit"} |-> GoInt("10")])],
     [RoundTripBase EXCEPT !.Name = BadUTF8],
     [RoundTripBase EXCEPT !.Headers = MakeMap([k \in {"X-A"} |-> BadUTF8])]}

SaveRoundTripAct == SaveRequestOf(RoundTripRecords)

InitRoundTrip ==
    /\ \E w \in Workspaces :
          /\ \A f \in DOMAIN w.files :
                w.files[f] \in {DocFile(MarshalRequest(RoundTripBase)),
                                TextFile(ExampleBody)}
          /\ files = w.files
          /\ dirs = w.dirs
    /\ envs = DefaultEnvs
    /\ last = NoCall
    /\ procs = NoProcs
    /\ tui = NoTUI

NextRoundTrip ==
    \/ SaveRoundTripAct
    \/ LoadRequestAct

SpecRoundTrip == InitRoundTrip /\ [][NextRoundTrip]_vars

\* A record that JSON holds as it is: its strings are valid UTF-8 and the
\* values of its params are of the types json.Unmarshal produces.
ValidMap(m) == \A k \in DOMAIN m.kv : m.kv[k] # BadUTF8

JSONFaithful(config) ==
    /\ \A s \in {config.Name, config.Description, config.Method, config.Body,
                 config.ActiveBody} : s # BadUTF8
    /\ \A i \in 1..Len(config.URL) : config.URL[i] # BadUTF8
    /\ ValidMap(config.Headers)
    /\ ValidMap(config.Cookies)
    /\ \A k \in DOMAIN config.Params.kv :
          /\ config.Params.kv[k].t \in {"float64", "string"}
          /\ config.Params.kv[k].v # BadUTF8

SavedFlatLayout ==
    /\ Succeeded("SaveRequest")
    /\ last.path \notin last.pdirs

\* C7 as claimed: the round-trip law.  For every record r and every path with
\* no directory, SaveRequest(path, r) then LoadRequest(path) returns a record
\* equal to r in every field.
C7_RoundTrip ==
    SavedFlatLayout =>
        /\ LoadedAfter.err = ""
        /\ LoadedAfter.config = last.config

\* C7 as amended: the round-trip law for the records JSON holds as they are
\* (strings of valid UTF-8, params values that are float64 or string), which
\* every record that LoadRequest returned is.
C7_RoundTripFaithful ==
    (SavedFlatLayout /\ JSONFaithful(last.config)) =>
        /\ LoadedAfter.err = ""
        /\ LoadedAfter.config = last.config

\* C7's case: a record with nil maps, an empty body and timeout 0, saved flat.
C7_Witness ==
    /\ SavedFlatLayout
    /\ last.config.Headers = NilMap
    /\ last.config.Timeout = 0
    /\ LoadedAfter.config = last.config

(***************************************************************************)
(* Execution.                                                              *)
(***************************************************************************)
EnvBefore == LoadEnvironment(envs, last.env)

\* An execution whose record and environment loaded.
Executed ==
    /\ Called("ExecuteRequest")
    /\ LoadedBefore.err = ""
    /\ EnvBefore.err = ""

ActiveBodyFile == BodyFile(last.path, LoadedBefore.config.ActiveBody)

\* C8: active-body fallback.  When the record names an active body whose
\* file, or the request directory itself, does not exist or cannot be read,
\* ExecuteRequest does not fail for it: it goes on to the outbound call with
\* the record's inline body.
C8_ActiveBodyFallback ==
    (/\ Executed
     /\ LoadedBefore.config.ActiveBody # ""
     /\ (last.path \notin dirs \/ ReadFile(files, ActiveBodyFile).err # "")) =>
        /\ last.out.calls = 1
              \/ last.err \in {"creating request", "unsupported protocol scheme"}
        /\ last.out.calls = 1 =>
              last.out.req.body = TextFile(LoadedBefore.config.Body)

\* C8's case: the active variant exists and cannot be read; the call goes
\* out with the inline body.
C8_Witness ==
    /\ Executed
    /\ LoadedBefore.config.ActiveBody = "b"
    /\ ReadFile(files, ActiveBodyFile).err = "permission"
    /\ last.out.calls = 1
    /\ last.out.req.body = TextFile(InlineBody)

MapsOver(choices) ==
    {MakeMap(f) : f \in UNION {{g \in [S -> UNION {choices[k] : k \in S}] :
                                    \A k \in S : g[k] \in choices[k]} :
                                S \in SUBSET DOMAIN choices}}

EnvHeaderMaps ==
    MapsOver([k \in {"X-A", "X-B", "x-b"} |->
                 CASE k = "X-A" -> {"1"}
                   [] k = "X-B" -> {"", "2"}
                   [] k = "x-b" -> {"", "1"}])

RequestHeaderMaps ==
    MapsOver([k \in {"X-B", "X-C", "x-b"} |->
                 CASE k = "X-B" -> {"", "3"}
                   [] k = "X-C" -> {""}
                   [] k = "x-b" -> {"", "4"}])

HeaderEnvironment(headers) ==
    Environment(<<"http://", "localhost:3000">>, headers, MakeMap(EmptyFcn),
                MakeMap(EmptyFcn), MakeMap(EmptyFcn))

InitHeaders ==
    /\ \E h \in RequestHeaderMaps :
          files = [f \in {TopPath} |->
                      DocFile(MarshalRequest([DiskRecord("") EXCEPT !.Headers = h]))]
    /\ dirs = {<<>>}
    /\ \E h \in EnvHeaderMaps :
          envs = [n \in {"dev"} |-> DocFile(MarshalEnvironment(HeaderEnvironment(h)))]
    /\ last = NoCall
    /\ procs = NoProcs
    /\ tui = NoTUI

NextHeaders == ExecuteRequestAct

SpecHeaders == InitHeaders /\ [][NextHeaders]_vars

\* The header maps of the record and of the environment, and the headers sent.
R == LoadedBefore.config.Headers.kv

E == EnvBefore.env.Headers.kv

Sent == last.out.req.headers

\* The request carries the header k with the value v (Header.Get(k) = v).
Carries(k, v) ==
    /\ CanonicalHeaderKey(k) \in DOMAIN Sent
    /\ Sent[CanonicalHeaderKey(k)] = v

ExampleMerge ==
    (/\ E = [k \in {"X-A", "X-B"} |-> IF k = "X-A" THEN "1" ELSE "2"]
     /\ R = [k \in {"X-B", "X-C"} |-> IF k = "X-B" THEN "3" ELSE ""]) =>
        Sent = [k \in {"X-A", "X-B"} |-> IF k = "X-A" THEN "1" ELSE "3"]

ValuesFor(m, key) ==
    {m[k] : k \in {x \in DOMAIN m : CanonicalHeaderKey(x) = key /\ m[x] # ""}}

HeaderNames == {CanonicalHeaderKey(k) : k \in DOMAIN R \cup DOMAIN E}

EnvCookieMaps ==
    MapsOver([k \in {"session", "theme"} |->
                 IF k = "session" THEN {"", "env-session"} ELSE {"dark"}])

RequestCookieMaps ==
    MapsOver([k \in {"session", "lang"} |->
                 IF k = "session" THEN {"", "req-session"} ELSE {""}])

EnvSingleHeaderMaps == MapsOver([k \in {"X-B"} |-> {"", "2"}])

RequestSingleHeaderMaps == MapsOver([k \in {"X-B"} |-> {"", "3"}])

MergeEnvironment(headers, cookies) ==
    Environment(<<"http://", "localhost:3000">>, headers, cookies,
                MakeMap(EmptyFcn), MakeMap(EmptyFcn))

InitCookies ==
    /\ \E h \in RequestSingleHeaderMaps, c \in RequestCookieMaps :
          files = [f \in {TopPath} |->
                      DocFile(MarshalRequest([DiskRecord("") EXCEPT
                                                 !.Headers = h, !.Cookies = c]))]
    /\ dirs = {<<>>}
    /\ \E h \in EnvSingleHeaderMaps, c \in EnvCookieMaps :
          envs = [n \in {"dev"} |->
                     DocFile(MarshalEnvironment(MergeEnvironment(h, c)))]
    /\ last = NoCall
    /\ procs = NoProcs
    /\ tui = NoTUI

NextCookies == ExecuteRequestAct

SpecCookies == InitCookies /\ [][NextCookies]_vars

\* The cookie maps of the record and of the environment, and the cookies sent.
RC == LoadedBefore.config.Cookies.kv

EC == EnvBefore.env.Cookies.kv

SentCookies == last.out.req.cookies

\* The values of the cookies the request carries under the name k, in order.
CookieValues(k) ==
    LET Named(c) == c.name = k
    IN  [i \in 1..Len(SelectSeq(SentCookies, Named)) |->
            SelectSeq(SentCookies, Named)[i].value]

\* The value a key has after the request's map is laid over the
\* environment's, the request's value winning.
Overlaid(env, req, k) == IF k \in DOMAIN req THEN req[k] ELSE env[k]

\* C11: empty-valued entries are never sent.  After the request's headers and
\* cookies are laid over the environment's, a key whose resulting value is
\* empty is absent from the outbound request, also when the other map gives
\* the key a non-empty value (environment {X-B:2}, request {X-B:""}: no X-B).
C11_EmptyNeverSent ==
    (Executed /\ last.out.calls = 1) =>
        /\ \A k \in DOMAIN R \cup DOMAIN E :
              Overlaid(E, R, k) = "" => CanonicalHeaderKey(k) \notin DOMAIN Sent
        /\ \A k \in DOMAIN RC \cup DOMAIN EC :
              Overlaid(EC, RC, k) = "" => CookieValues(k) = <<>>

\* C12: cookie merge precedence.  For a cookie name that both maps give a
\* non-empty value, the request carries exactly one cookie of that name, with
\* the request's value.
C12_CookieMerge ==
    (Executed /\ last.out.calls = 1) =>
        \A k \in DOMAIN RC \cap DOMAIN EC :
            (RC[k] # "" /\ EC[k] # "") => CookieValues(k) = <<RC[k]>>

(***************************************************************************)
(* Authentication: a flat request and the environment dev, whose auth map  *)
(* names a scheme or none and has the scheme's fields or lacks them; the   *)
(* record and the environment may set the auth headers themselves.         *)
(***************************************************************************)
\* The maps of MapsOver(choices) that have the key type.
TypedAuthMaps(choices) == {m \in MapsOver(choices) : Has(m, "type")}

AllAuthFields(type) ==
    [k \in {"type", "token", "username", "password", "key", "header"} |->
        CASE k = "type" -> type
          [] k = "token" -> "tok"
          [] k = "username" -> "user"
          [] k = "password" -> "pass"
          [] k = "key" -> "k"
          [] k = "header" -> "X-API-Key"]

AuthMaps ==
    TypedAuthMaps([k \in {"type", "token"} |->
                      IF k = "type" THEN {"bearer"} ELSE {"", "tok"}])
    \cup TypedAuthMaps([k \in {"type", "username", "password"} |->
                           CASE k = "type" -> {"basic"}
                             [] k = "username" -> {"", "user"}
                             [] k = "password" -> {"", "pass"}])
    \cup TypedAuthMaps([k \in {"type", "key", "header"} |->
                           CASE k = "type" -> {"api-key"}
                             [] k = "key" -> {"", "k"}
                             [] k = "header" -> {"", "X-API-Key"}])
    \cup {MakeMap(AllAuthFields(t)) :
             t \in {"", "none", "bearer", "basic", "api-key"}}
    \cup {MakeMap([k \in DOMAIN AllAuthFields("") \ {"type"} |->
                      AllAuthFields("")[k]])}

AuthRequestHeaderMaps ==
    MapsOver([k \in {"Authorization", "X-API-Key"} |-> {"mine"}])

AuthEnvHeaderMaps == MapsOver([k \in {"Authorization"} |-> {"from-env"}])

AuthEnvironment(headers, auth) ==
    Environment(<<"http://", "localhost:3000">>, headers, MakeMap(EmptyFcn),
                auth, MakeMap(EmptyFcn))

InitAuth ==
    /\ \E h \in AuthRequestHeaderMaps :
          files = [f \in {TopPath} |->
                      DocFile(MarshalRequest([DiskRecord("") EXCEPT !.Headers = h]))]
    /\ dirs = {<<>>}
    /\ \E h \in AuthEnvHeaderMaps, auth \in AuthMaps :
          envs = [n \in {"dev"} |->
                     DocFile(MarshalEnvironment(AuthEnvironment(h, auth)))]
    /\ last = NoCall
    /\ procs = NoProcs
    /\ tui = NoTUI

NextAuth == ExecuteRequestAct

SpecAuth == InitAuth /\ [][NextAuth]_vars

\* The environment's auth map, a field of it ("" when absent) and its type.
A == EnvBefore.env.Auth

AuthField(k) == IF Has(A, k) THEN A.kv[k] ELSE ""

AuthType == AuthField("type")

\* The environment has what the scheme needs (config.go:481, 485-486, 491-492).
Complete(scheme) ==
    CASE scheme = "bearer" -> NonEmpty(A, "token")
      [] scheme = "basic" -> Has(A, "username") /\ Has(A, "password")
      [] scheme = "api-key" -> NonEmpty(A, "key") /\ NonEmpty(A, "header")
      [] OTHER -> FALSE

\* The header a scheme sets, and the value it sets it to.
AuthHeader(scheme) ==
    IF scheme = "api-key" THEN CanonicalHeaderKey(AuthField("header"))
    ELSE "Authorization"

AuthValue(scheme) ==
    CASE scheme = "bearer" -> "Bearer " \o AuthField("token")
      [] scheme = "basic" -> BasicCredentials(AuthField("username"),
                                              AuthField("password"))
      [] scheme = "api-key" -> AuthField("key")

\* C13: a request cannot override or disable environment auth.  Whenever the
\* environment's auth applies a scheme (bearer with a token, basic with
\* username and password, api-key with key and header), the auth header of
\* the outbound request has the value derived from the environment, whatever
\* header of that name the record or the environment's headers have.
C13_AuthNotOverridable ==
    (Executed /\ last.out.calls = 1) =>
        \A scheme \in {"bearer", "basic", "api-key"} :
            (AuthType = scheme /\ Complete(scheme)) =>
                Carries(AuthHeader(scheme), AuthValue(scheme))

\* C13's case: the record and the environment's headers both set
\* Authorization, and the bearer token replaces it.
C13_Witness ==
    /\ Executed
    /\ last.out.calls = 1
    /\ AuthType = "bearer"
    /\ "Authorization" \in DOMAIN R
    /\ "Authorization" \in DOMAIN E
    /\ Sent["Authorization"] = "Bearer tok"

\* The schemes whose effect the outbound request shows.
AppliedSchemes ==
    {scheme \in {"bearer", "basic", "api-key"} :
        /\ AuthHeader(scheme) \in DOMAIN Sent
        /\ Sent[AuthHeader(scheme)] = AuthValue(scheme)}

\* C14 as claimed: exactly one auth scheme.  Whenever the auth map has a
\* non-empty type exactly one of bearer, basic and api-key is applied, never
\* none and never more than one; with type absent or empty none is applied.
C14_ExactlyOneScheme ==
    (Executed /\ last.out.calls = 1) =>
        IF AuthType # "" THEN Cardinality(AppliedSchemes) = 1
        ELSE AppliedSchemes = {}

\* C14 as amended: at most one auth scheme.  The scheme the type names is
\* applied when the environment has what it needs (bearer: a non-empty token;
\* basic: the keys username and password; api-key: a non-empty key and a
\* non-empty header), and no other scheme is; with type absent, empty or none
\* of the three, or with the scheme's fields missing, none is applied and the
\* headers are those of the merge.
C14_AtMostOneScheme ==
    (Executed /\ last.out.calls = 1) =>
        /\ AppliedSchemes = {scheme \in {AuthType} : Complete(scheme)}
        /\ \A key \in DOMAIN Sent :
              \/ key \in {AuthHeader(scheme) : scheme \in AppliedSchemes}
              \/ Sent[key] \in ValuesFor(R, key) \cup ValuesFor(E, key)

\* C14's case: the type is bearer and the map has the fields of all three
\* schemes; only the bearer token is applied.
C14_Witness ==
    /\ Executed
    /\ last.out.calls = 1
    /\ A.kv = AllAuthFields("bearer")
    /\ AppliedSchemes = {"bearer"}
    /\ "X-Api-Key" \notin DOMAIN Sent

(***************************************************************************)
(* The URL and the call: a flat request and the environment dev, either of *)
(* which may be malformed, with URLs that hold placeholders and variables  *)
(* whose values are plain, empty, a placeholder or a control character.    *)
(***************************************************************************)
Var(key) == Placeholder(<<key>>)

RequestURLs ==
    {<<"/", "v1", "/", "x">>,
     <<"https://">> \o Var("host") \o <<"/v1/x">>,
     <<"/">> \o Var("host") \o <<"/">> \o Var("missing"),
     <<"/">> \o Var("id") \o <<"/", "{", "id", "}", "/">> \o Var("id"),
     <<"/", "{">> \o Var("id") \o <<"{", "host", "}", "}">>}

BaseURLs == {<<>>, <<"http://", "h">>, <<"http://", "h", "/">>}

\* MapsOver for maps whose keys and values are sequences of characters.
VariableMaps ==
    {MakeMap(f) :
        f \in UNION {{g \in [S -> {<<"api.test">>, Var("id"), <<"7">>, <<>>,
                                    <<ControlChar>>}] :
                         /\ <<"host">> \in S =>
                               g[<<"host">>] \in {<<"api.test">>, Var("id")}
                         /\ <<"id">> \in S =>
                               g[<<"id">>] \in {<<"7">>, <<>>, <<ControlChar>>}} :
                     S \in SUBSET {<<"host">>, <<"id">>}}}

URLEnvironment(baseURL, variables) ==
    Environment(baseURL, MakeMap(EmptyFcn), MakeMap(EmptyFcn), MakeMap(EmptyFcn),
                variables)

InitURLs ==
    /\ \E content \in {DocFile(MarshalRequest([DiskRecord("") EXCEPT !.URL = u])) :
                          u \in RequestURLs} \cup {TextFile(NotJSON)} :
          files = [f \in {TopPath} |-> content]
    /\ dirs = {<<>>}
    /\ \E content \in {DocFile(MarshalEnvironment(URLEnvironment(b, v))) :
                          b \in BaseURLs, v \in VariableMaps}
                      \cup {TextFile(NotJSON)} :
          envs = [n \in {"dev"} |-> content]
    /\ last = NoCall
    /\ procs = NoProcs
    /\ tui = NoTUI

NextURLs == ExecuteRequestAct

SpecURLs == InitURLs /\ [][NextURLs]_vars

\* The environment's variables, the full URL before substitution and the URL
\* of the request that was built.
V == EnvBefore.env.Variables.kv

FullBefore == StripSlash(EnvBefore.env.BaseURL) \o LoadedBefore.config.URL

Resolved == last.out.req.url

Built == Executed /\ last.err # "creating request"

\* The keys whose placeholder the URL starts with.
StartsWith(url, variables) ==
    {k \in DOMAIN variables :
        /\ Len(url) >= Len(Placeholder(k))
        /\ SubSeq(url, 1, Len(Placeholder(k))) = Placeholder(k)}

\* Every occurrence of a key's placeholder in the URL replaced by the key's
\* value, from the left, what is put in not being looked at again.
RECURSIVE ReplacedAtOnce(_, _)
ReplacedAtOnce(url, variables) ==
    IF url = <<>> THEN <<>>
    ELSE IF StartsWith(url, variables) # {}
    THEN LET k == CHOOSE k \in StartsWith(url, variables) : TRUE
         IN  variables[k]
             \o ReplacedAtOnce(SubSeq(url, Len(Placeholder(k)) + 1, Len(url)),
                               variables)
    ELSE <<Head(url)>> \o ReplacedAtOnce(Tail(url), variables)

\* C15: variable substitution.  In the full URL (the base URL less
\* one trailing slash, then the request's URL) every occurrence of {{key}},
\* for every key of the variables map, is replaced by the key's value, and
\* every {{x}} whose x is no key stays as it is.
C15_Substitution ==
    Built => Resolved = ReplacedAtOnce(FullBefore, V)

\* C29: substitution is a single pass and deterministic.  For every variables
\* map and URL the resolved URL is the same for every iteration order of the
\* variables, and text that a value brought in is never substituted itself
\* ({a: "{{b}}", b: "x"} and /{{a}} always give /{{b}}).
C29_SinglePassDeterministic ==
    Built =>
        /\ \A order \in Orders(EnvBefore.env.Variables) :
              Substitute(FullBefore, EnvBefore.env.Variables, order) = Resolved
        /\ Resolved = ReplacedAtOnce(FullBefore, V)

\* The HTTP calls that went out: the client's, and one for each redirect.
Outbound == last.out.calls + last.out.followed

LoadError ==
    IF LoadedBefore.err # "" THEN "loading request: " \o LoadedBefore.err
    ELSE IF EnvBefore.err # "" THEN "loading environment: " \o EnvBefore.err
    ELSE ""

Sendable ==
    /\ last.err # "creating request"
    /\ last.err # "unsupported protocol scheme"

CustomEnv ==
    DocFile(MarshalEnvironment(
        Environment(<<"https://", "staging.example.com">>, MakeMap(EmptyFcn),
                    MakeMap(EmptyFcn), MakeMap(EmptyFcn), MakeMap(EmptyFcn))))

\* The environments directory before construction.
FoundEnvs ==
    UNION {{es \in [S -> {CustomEnv} \cup {DefaultEnvs[n] : n \in DOMAIN DefaultEnvs}] :
                \A n \in S : es[n] = CustomEnv
                                \/ (n \in DOMAIN DefaultEnvs /\ es[n] = DefaultEnvs[n])} :
           S \in SUBSET EnvNames}

CustomRecord == DocFile(MarshalRequest(DiskRecord("")))

\* The requests directory before construction: absent, empty, holding an
\* empty directory, or holding requests.
FoundRequests ==
    {[files |-> EmptyFcn, dirs |-> {}],
     [files |-> EmptyFcn, dirs |-> {<<>>}],
     [files |-> EmptyFcn, dirs |-> {<<>>, <<"users">>}],
     [files |-> [f \in {TopPath} |-> CustomRecord], dirs |-> {<<>>}],
     [files |-> [f \in {SamplePath} |-> CustomRecord], dirs |-> {<<>>, <<"users">>}],
     [files |-> [f \in {RecordFile(TopPath), BodyFile(TopPath, "b")} |->
                    IF f = RecordFile(TopPath) THEN CustomRecord
                    ELSE TextFile(ExampleBody)],
      dirs |-> {<<>>, TopPath}]}

InitConstruct ==
    /\ \E w \in FoundRequests : files = w.files /\ dirs = w.dirs
    /\ envs \in FoundEnvs
    /\ last = NoCall
    /\ procs = NoProcs
    /\ tui = NoTUI

NextConstruct ==
    \/ NewConfigManagerAct
    \/ ListRequestsAct

SpecConstruct == InitConstruct /\ [][NextConstruct]_vars

Constructed == Succeeded("NewConfigManager")

\* The files construction added to the environments and to the requests.
AddedEnvs == DOMAIN envs \ DOMAIN last.penvs

AddedRequests == DOMAIN files \ DOMAIN last.pfiles

\* C17 as claimed: seeding runs only on empty directories.  Construction
\* writes dev and prod only when the environments directory has no file, and
\* the sample request only when the requests directory is empty; to a
\* directory that has a file (only staging.json, or dev.json with prod.json
\* deleted) it adds none.
C17_SeedingOnlyWhenEmpty ==
    Constructed =>
        /\ AddedEnvs = IF DOMAIN last.penvs = {} THEN {"dev", "prod"} ELSE {}
        /\ AddedRequests = IF RootEntries(last.pfiles, last.pdirs) = {}
                           THEN {SamplePath} ELSE {}

\* C17 as amended: construction writes each of the default environments dev
\* and prod whose own file does not exist, whatever else the environments
\* directory holds, and writes the sample request only when the requests
\* directory has no entry, file or directory; to a requests directory that
\* has an entry it adds no file.
C17_SeedingPerFile ==
    Constructed =>
        /\ AddedEnvs = {"dev", "prod"} \ DOMAIN last.penvs
        /\ \A n \in AddedEnvs : envs[n] = DefaultEnvs[n]
        /\ AddedRequests = IF RootEntries(last.pfiles, last.pdirs) = {}
                           THEN {SamplePath} ELSE {}
        /\ \A f \in AddedRequests : files[f] = DocFile(MarshalRequest(SampleRequest))

\* C17's case: the environments directory holds dev.json only and the
\* requests directory an empty directory only; prod.json is written again
\* and no request is.
C17_Witness ==
    /\ Constructed
    /\ DOMAIN last.penvs = {"dev"}
    /\ AddedEnvs = {"prod"}
    /\ last.pfiles = EmptyFcn
    /\ last.pdirs = {<<>>, <<"users">>}
    /\ AddedRequests = {}

\* C18: construction is idempotent and never overwrites.  It leaves every
\* environment file and request file that exists as it is, and constructing
\* once more changes nothing.
C18_ConstructionIdempotent ==
    Constructed =>
        /\ \A n \in DOMAIN last.penvs : n \in DOMAIN envs /\ envs[n] = last.penvs[n]
        /\ \A f \in DOMAIN last.pfiles : f \in DOMAIN files /\ files[f] = last.pfiles[f]
        /\ NewConfigManager(files, dirs, envs) =
              [err |-> "", files |-> files, dirs |-> dirs, envs |-> envs]

\* C18's case: dev.json is the user's and users/get-users.json too; both
\* are kept and prod.json is added.
C18_Witness ==
    /\ Constructed
    /\ "dev" \in DOMAIN last.penvs
    /\ envs["dev"] = CustomEnv
    /\ AddedEnvs = {"prod"}
    /\ FileExists(last.pfiles, SamplePath)
    /\ files[SamplePath] = CustomRecord

\* The working directory had no data: no environment, no request, no
\* directory below the requests directory.
NoPriorData ==
    /\ last.penvs = EmptyFcn
    /\ last.pfiles = EmptyFcn
    /\ last.pdirs \subseteq {<<>>}

\* C19: end-to-end initialization.  From a workspace without data,
\* construction leaves exactly the environments dev and prod and exactly one
\* request, users/get-users, stored flat, and ListRequests returns
\* {users: [users/get-users]}.
C19_Initialization ==
    (Constructed /\ NoPriorData) =>
        /\ DOMAIN envs = {"dev", "prod"}
        /\ DOMAIN files = {SamplePath}
        /\ SamplePath \notin dirs
        /\ LoadRequest(files, SamplePath).err = ""
        /\ LoadRequest(files, SamplePath).config = SampleRequest
        /\ ListRequests(files, dirs) =
              [err |-> "", requests |-> [g \in {<<"users">>} |-> <<SamplePath>>]]

\* C19's case: construction where not even the directories existed.
C19_Witness ==
    /\ Constructed
    /\ NoPriorData
    /\ last.pdirs = {}
    /\ dirs = {<<>>, <<"users">>}
    /\ DOMAIN files = {SamplePath}

\* What ListRequests returned: the paths of all its lists.
Listed ==
    UNION {{last.out.requests[g][i] : i \in 1..Len(last.out.requests[g])} :
           g \in DOMAIN last.out.requests}

\* The paths a file can have in the model.
FilePaths == DOMAIN files

\* A file is the record of a directory request: <p>/request.json.
IsRecordFile(f) == Len(f) >= 2 /\ f[Len(f)] = "request"

\* A file is a body variant: <p>/<name>.json beside the record of p, in
\* either layout.
IsVariantFile(f) ==
    /\ Len(f) >= 2
    /\ ~IsRecordFile(f)
    /\ (FileExists(files, Dir(f)) \/ FileExists(files, RecordFile(Dir(f))))

\* The logical paths that have a record: p for <p>.json and p for
\* <p>/request.json.
RecordPaths ==
    {f \in FilePaths : ~IsRecordFile(f) /\ ~IsVariantFile(f)}
    \cup {Dir(f) : f \in {g \in FilePaths : IsRecordFile(g)}}

\* C20: ListRequests returns the logical paths of requests only.  In every
\* reachable workspace the paths it returns are exactly those that have a
\* record, p for <p>.json and p for <p>/request.json, and a body variant
\* file <p>/<name>.json adds none.
C20_ListRequestsLogicalPaths ==
    Succeeded("ListRequests") => Listed = RecordPaths

(***************************************************************************)
(* What the operations leave alone.                                        *)
(***************************************************************************)
\* The last call changed nothing.
WorkspaceUnchanged ==
    /\ files = last.pfiles
    /\ dirs = last.pdirs
    /\ envs = last.penvs

\* The last call removed the file f and changed nothing else.
OnlyRemoved(f) ==
    /\ DOMAIN files = DOMAIN last.pfiles \ {f}
    /\ \A g \in DOMAIN files : files[g] = last.pfiles[g]
    /\ dirs = last.pdirs
    /\ envs = last.penvs

\* C21: DeleteRequest touches the flat file only.  It succeeds exactly when
\* <path>.json exists; it then removes that file and leaves
\* <path>/request.json, every variant file and every other request and
\* environment as they are; without the flat file it fails with a not-found
\* error and changes nothing.
C21_DeleteFlatOnly ==
    Called("DeleteRequest") =>
        /\ last.err = "" <=> FileExists(last.pfiles, last.path)
        /\ last.err = "" => OnlyRemoved(last.path)
        /\ last.err # "" =>
              (last.err = "deleting request file: notexist" /\ WorkspaceUnchanged)

\* C21's case: the request has both layouts and a variant; the flat file
\* goes, the directory's record and the variant stay.
C21_Witness ==
    /\ Succeeded("DeleteRequest")
    /\ last.path = TopPath
    /\ ~FileExists(files, TopPath)
    /\ FileExists(files, RecordFile(TopPath))
    /\ FileExists(files, BodyFile(TopPath, "b"))

\* C22: RemoveBody of a missing variant.  If <path>/<name>.json does not
\* exist, RemoveBody fails with a not-found error and leaves every file,
\* the request record and its activeBody included, as it is.
C22_RemoveMissingVariant ==
    (Called("RemoveBody") /\ ~FileExists(last.pfiles, BodyFile(last.path, last.name))) =>
        /\ last.err = NoBodyError
        /\ WorkspaceUnchanged

\* C22's case: the record names the missing variant as its active body, and
\* still does after the call.
C22_Witness ==
    /\ Called("RemoveBody")
    /\ ~FileExists(last.pfiles, BodyFile(last.path, last.name))
    /\ last.err = NoBodyError
    /\ LoadedBefore.err = ""
    /\ LoadedBefore.config.ActiveBody = last.name
    /\ LoadedAfter.config.ActiveBody = last.name

\* C24: read-your-writes across layouts.  In every reachable workspace, with
\* the flat file, the directory or both, a SaveRequest(path, r) that succeeds
\* followed by LoadRequest(path) returns r: the two resolvers select the same
\* file.
C24_ReadYourWrites ==
    Succeeded("SaveRequest") =>
        /\ LoadedAfter.err = ""
        /\ LoadedAfter.config = last.config
        /\ LoadedAfter.file = WritePath(last.pdirs, last.path)

\* C25: RemoveBody never destroys the request record.  For every path and
\* every name, "request" included, if LoadRequest succeeds before RemoveBody
\* it succeeds after it, with a record that differs at most in activeBody.
C25_RemoveBodyKeepsRecord ==
    (Called("RemoveBody") /\ LoadedBefore.err = "") =>
        /\ LoadedAfter.err = ""
        /\ [LoadedAfter.config EXCEPT !.ActiveBody = ""] =
              [LoadedBefore.config EXCEPT !.ActiveBody = ""]

\* What ListBodies lists for the request at the time of the last call.
ListedBodies == ListBodies(last.pfiles, last.pdirs, last.path)

\* C26: the three variant operations agree on what a variant is.
\* SetActiveBody and RemoveBody succeed only for names that ListBodies lists
\* at call time, so the record file (the name "request") never becomes the
\* active body and is never removed as a variant.
C26_VariantsAgree ==
    (Succeeded("SetActiveBody") \/ Succeeded("RemoveBody")) =>
        /\ ListedBodies.err = ""
        /\ last.name \in ListedBodies.bodies

\* C27: RemoveBody is all-or-nothing on error.  Whenever RemoveBody returns
\* an error (variant missing, record missing or malformed, save failure) the
\* workspace is unchanged; the variant file has not been deleted.
C27_RemoveBodyAllOrNothing ==
    (Called("RemoveBody") /\ last.err # "") => WorkspaceUnchanged

(***************************************************************************)
(* Generation: the generate command on a working directory that has the    *)
(* sample request, with documents of a few operations.                     *)
(***************************************************************************)
\* The paths and methods of the documents, and the operationIds.
OperationSlots ==
    {<<<<"users">>, "GET">>, <<<<"users", "me">>, "GET">>, <<<<"users-me">>, "GET">>,
     <<<<"users">>, "POST">>}

OperationIDs == {"", "listUsers", "ListUsers"}

\* The documents that validate: no operationId is used twice.
Documents ==
    {doc \in [title : {"", "Pet Store"},
              operations : UNION {[S -> [operationID : OperationIDs,
                                          requestBody : BOOLEAN]] :
                                     S \in SUBSET OperationSlots}] :
        /\ \A s, t \in DOMAIN doc.operations :
              (s # t /\ doc.operations[s].operationID # "") =>
                  doc.operations[s].operationID # doc.operations[t].operationID
        /\ \A s \in DOMAIN doc.operations :
              /\ doc.operations[s].requestBody => s[2] = "POST"
              /\ s[2] = "POST" => doc.operations[s].operationID = ""}

\* Generation runs on a requests directory of at most this many files.
MaxPriorFiles == 1

GenerateAct ==
    /\ Cardinality(DOMAIN files) <= MaxPriorFiles
    /\ \E doc \in Documents :
          \E writers \in LastWriters(doc) :
              \E written \in SUBSET {n \in DOMAIN writers :
                                        ~CanWrite(files, RecordFile(<<SpecTitle(doc.title), n>>))} :
                  LET r == GenerateRequestsFromOpenAPI(files, dirs, doc, writers, written)
                  IN  /\ files' = r.files
                      /\ dirs' = r.dirs
                      /\ last' = Call("GenerateRequestsFromOpenAPI", <<>>, "", "",
                                      ZeroConfig, r.err, doc)
                      /\ UNCHANGED <<envs, procs, tui>>

InitGenerate ==
    /\ files = [f \in {SamplePath} |-> DocFile(MarshalRequest(SampleRequest))]
    /\ dirs = {<<>>, Dir(SamplePath)}
    /\ envs = DefaultEnvs
    /\ last = NoCall
    /\ procs = NoProcs
    /\ tui = NoTUI

NextGenerate ==
    \/ GenerateAct
    \/ ListRequestsAct

SpecGenerate == InitGenerate /\ [][NextGenerate]_vars

\* The spec folder of the document generated last, and the request
\* directories in it.
SpecFolder == <<SpecTitle(last.out.title)>>

RequestDirs == {d \in dirs : Len(d) = 2 /\ Dir(d) = SpecFolder}

\* C23: generation writes one request directory per operation.  After
\* GenerateRequestsFromOpenAPI on a document of N operations the spec folder
\* has N request directories, each with a request.json whose method and url
\* are those of its operation, named by the lower-cased operationId or else
\* by method and path; no two operations share or overwrite a directory.
C23_OneDirectoryPerOperation ==
    (Succeeded("GenerateRequestsFromOpenAPI") /\ SpecFolder \notin last.pdirs) =>
        /\ Cardinality(RequestDirs) = Cardinality(Operations(last.out))
        /\ \A op \in Operations(last.out) :
              LET f == RecordFile(Append(SpecFolder, RequestName(op)))
              IN  /\ FileExists(files, f)
                  /\ files[f].doc.method = op.method
                  /\ files[f].doc.url = PathURL(op.path)

\* The group of the immediate parent directory's name.
ParentGroup(f) == IF Len(f) = 1 THEN <<"root">> ELSE <<f[Len(f) - 1]>>

\* C30: ListRequests grouping.  Every listed path is in the group named
\* after the immediate parent directory of its file (the group of
\* api/users/get.json is "users"), a file directly under the requests root
\* in the group "root"; each path is in exactly one group.
C30_GroupedByParentName ==
    Succeeded("ListRequests") =>
        /\ \A g \in DOMAIN last.out.requests :
              \A i \in 1..Len(last.out.requests[g]) :
                  g = ParentGroup(last.out.requests[g][i])
        /\ \A g, h \in DOMAIN last.out.requests :
              \A i \in 1..Len(last.out.requests[g]), j \in 1..Len(last.out.requests[h]) :
                  last.out.requests[g][i] = last.out.requests[h][j] => (g = h /\ i = j)

(***************************************************************************)
(* Two tool processes on one workspace.  The store takes no lock and       *)
(* writes in place (config.go:148-177), so the calls of one operation      *)
(* interleave with those of the other: each step below is one call of      *)
(* SetActiveBody (config.go:512-528) or RemoveBody (config.go:554-579).    *)
(* The request a is in the directory layout with both variants beside it.  *)
(***************************************************************************)
RaceNames == {"b", "c"}

Procs == {1, 2}

Running(op, name, pc) ==
    [op |-> op, name |-> name, pc |-> pc, config |-> ZeroConfig, err |-> "",
     wrote |-> FALSE]

\* The first call of each operation: SetActiveBody loads the record,
\* RemoveBody stats the variant file.
StartSet(name) == Running("SetActiveBody", name, "load")

StartRemove(name) == Running("RemoveBody", name, "stat")

Returned(p, err) == [procs EXCEPT ![p].pc = "done", ![p].err = err]

At(p, op, pc) == p \in DOMAIN procs /\ procs[p].op = op /\ procs[p].pc = pc

\* SetActiveBody: config, err := cm.LoadRequest(requestPath)
SetLoad(p) ==
    /\ At(p, "SetActiveBody", "load")
    /\ LET loaded == LoadRequest(files, TopPath)
       IN  procs' = IF loaded.err # ""
                    THEN Returned(p, "loading request: " \o loaded.err)
                    ELSE [procs EXCEPT ![p].pc = "stat", ![p].config = loaded.config]
    /\ UNCHANGED <<files, dirs, envs, last, tui>>

\* SetActiveBody: os.Stat(bodyFilePath)
SetStat(p) ==
    /\ At(p, "SetActiveBody", "stat")
    /\ procs' = IF ~FileExists(files, BodyFile(TopPath, procs[p].name))
                THEN Returned(p, NoBodyError)
                ELSE [procs EXCEPT ![p].pc = "save",
                                   ![p].config.ActiveBody = procs[p].name]
    /\ UNCHANGED <<files, dirs, envs, last, tui>>

\* SetActiveBody: return cm.SaveRequest(requestPath, config)
SetSave(p) ==
    /\ At(p, "SetActiveBody", "save")
    /\ LET saved == SaveRequest(files, dirs, TopPath, procs[p].config)
       IN  /\ files' = saved.files
           /\ dirs' = saved.dirs
           /\ procs' = [Returned(p, saved.err) EXCEPT ![p].wrote = (saved.err = "")]
    /\ UNCHANGED <<envs, last, tui>>

\* RemoveBody: os.Stat(bodyFilePath)
RemoveStat(p) ==
    /\ At(p, "RemoveBody", "stat")
    /\ procs' = IF ~FileExists(files, BodyFile(TopPath, procs[p].name))
                THEN Returned(p, NoBodyError)
                ELSE [procs EXCEPT ![p].pc = "remove"]
    /\ UNCHANGED <<files, dirs, envs, last, tui>>

\* RemoveBody: os.Remove(bodyFilePath)
RemoveDelete(p) ==
    /\ At(p, "RemoveBody", "remove")
    /\ IF ~FileExists(files, BodyFile(TopPath, procs[p].name))
       THEN /\ procs' = Returned(p, "removing body file: notexist")
            /\ UNCHANGED files
       ELSE /\ files' = RemoveFile(files, BodyFile(TopPath, procs[p].name))
            /\ procs' = [procs EXCEPT ![p].pc = "load"]
    /\ UNCHANGED <<dirs, envs, last, tui>>

\* RemoveBody: config, err := cm.LoadRequest(requestPath), and the test of
\* config.ActiveBody == bodyName
RemoveLoad(p) ==
    /\ At(p, "RemoveBody", "load")
    /\ LET loaded == LoadRequest(files, TopPath)
       IN  procs' = IF loaded.err # ""
                    THEN Returned(p, "loading request: " \o loaded.err)
                    ELSE IF loaded.config.ActiveBody = procs[p].name
                    THEN [procs EXCEPT ![p].pc = "save",
                                       ![p].config = [loaded.config EXCEPT
                                                          !.ActiveBody = ""]]
                    ELSE Returned(p, "")
    /\ UNCHANGED <<files, dirs, envs, last, tui>>

\* RemoveBody: return cm.SaveRequest(requestPath, config)
RemoveSave(p) ==
    /\ At(p, "RemoveBody", "save")
    /\ LET saved == SaveRequest(files, dirs, TopPath, procs[p].config)
       IN  /\ files' = saved.files
           /\ dirs' = saved.dirs
           /\ procs' = [Returned(p, saved.err) EXCEPT ![p].wrote = (saved.err = "")]
    /\ UNCHANGED <<envs, last, tui>>

\* RemoveBody(a, n) beside SetActiveBody(a, n), or two SetActiveBody calls.
RacePairs ==
    {<<StartRemove(n), StartSet(n)>> : n \in RaceNames}
    \cup {<<StartSet(n), StartSet(m)>> : n \in RaceNames, m \in RaceNames}

RaceFiles(active) ==
    [f \in {RecordFile(TopPath)} \cup {BodyFile(TopPath, n) : n \in RaceNames} |->
        IF f = RecordFile(TopPath) THEN DocFile(MarshalRequest(DiskRecord(active)))
        ELSE TextFile(ExampleBody)]

InitRace ==
    /\ \E active \in RaceNames \cup {""} : files = RaceFiles(active)
    /\ dirs = {<<>>, TopPath}
    /\ envs = DefaultEnvs
    /\ last = NoCall
    /\ procs \in RacePairs
    /\ tui = NoTUI

NextRace ==
    \E p \in Procs :
        \/ SetLoad(p)
        \/ SetStat(p)
        \/ SetSave(p)
        \/ RemoveStat(p)
        \/ RemoveDelete(p)
        \/ RemoveLoad(p)
        \/ RemoveSave(p)

SpecRace == InitRace /\ [][NextRace]_vars

BothReturned == DOMAIN procs = Procs /\ \A p \in Procs : procs[p].pc = "done"

\* What the operations that wrote the record wrote as its activeBody.
WrittenValues == {procs[p].config.ActiveBody : p \in {q \in Procs : procs[q].wrote}}

\* C28: the active-body invariant under interleaving.  Once RemoveBody(a, n)
\* and SetActiveBody(a, n), or two SetActiveBody calls, run by two processes
\* with their calls interleaved in any order, have both returned, the stored
\* record's activeBody is empty or names an existing variant file, and is
\* the value one of the two operations wrote.
C28_InterleavedInvariant ==
    BothReturned =>
        LET stored == LoadRequest(files, TopPath)
        IN  /\ stored.err = ""
            /\ NamesExistingVariant(files, TopPath, stored.config)
            /\ WrittenValues # {} => stored.config.ActiveBody \in WrittenValues

\* The names n for which <path>/<n>.json is a file, the record file aside.
VariantNames(fs, path) ==
    {f[Len(f)] : f \in {g \in DOMAIN fs : Len(g) = Len(path) + 1
                                           /\ SubSeq(g, 1, Len(path)) = path}}
        \ {"request"}

C32_ExecuteReadOnly ==
    Called("ExecuteRequest") =>
        /\ files = last.pfiles
        /\ envs = last.penvs

\* An execution of a record whose activeBody names no file.
C32_Witness ==
    /\ Executed
    /\ LoadedBefore.config.ActiveBody # ""
    /\ ~FileExists(last.pfiles, ActiveBodyFile)

(***************************************************************************)
(* The terminal interface (tui.go): the bubbletea Model, its Update on     *)
(* window-size and key messages, and the window renderEndpointList draws.  *)
(* An endpoint is the number of its parameters and whether it has a        *)
(* request body.  "access" holds the indexes the last message's handler    *)
(* and the View after it used in m.endpoints[m.selectedIndex]; an index    *)
(* out of range is a run-time panic, which ends the program.               *)
(***************************************************************************)
\* The longest endpoint list GetEndpoints returns in the model.
MaxEndpoints == 3

\* The most parameters of an endpoint.
MaxParams == 1

\* The tallest terminal.
MaxHeight == 13

\* The rows renderEndpointList leaves to the list: m.height - 10.
HeaderRows == 10

Endpoints ==
    UNION {[1..n -> [Parameters : 0..MaxParams, RequestBody : BOOLEAN]] :
               n \in 0..MaxEndpoints}

\* Terminal heights: none reported yet, and from no room for the list up.
Heights == {0} \cup (HeaderRows..MaxHeight)

Keys == {"up", "k", "down", "j", "enter", "esc", "tab", "shift+tab", "ctrl+s",
         "c", "n", "q", "ctrl+c", "x"}

\* NewModel: the zero Model with the endpoints and EndpointListView.
NewModel(endpoints) ==
    [endpoints |-> endpoints, selectedIndex |-> 0, viewState |-> "EndpointListView",
     paramInputs |-> 0, paramFocus |-> -1, bodyFocused |-> FALSE,
     height |-> 0, scrollOffset |-> 0, access |-> {}, run |-> "running"]

InRange(m, i) == 0 <= i /\ i < Len(m.endpoints)

\* m.endpoints[i] of the Go slice, whose first index is 0.
EndpointAt(m, i) == m.endpoints[i + 1]

\* m.endpoints[m.selectedIndex]: the access is recorded, and one out of
\* range panics.
Indexed(m) ==
    [m EXCEPT !.access = m.access \cup {m.selectedIndex},
              !.run = IF InRange(m, m.selectedIndex) THEN m.run ELSE "panic"]

Quit(m) == [m EXCEPT !.run = "quit"]

\* initializeInputs: a fresh input per parameter, the first one focused, and
\* a fresh body input when the endpoint has a body, focused when there is
\* no parameter.
InitializeInputs(m) ==
    LET a == Indexed(m)
    IN  IF a.run = "panic" THEN a
        ELSE LET endpoint == EndpointAt(m, m.selectedIndex)
             IN  [a EXCEPT !.paramInputs = endpoint.Parameters,
                           !.paramFocus = IF endpoint.Parameters > 0 THEN 0 ELSE -1,
                           !.bodyFocused = IF endpoint.RequestBody
                                           THEN endpoint.Parameters = 0
                                           ELSE m.bodyFocused]

\* updateEndpointList.
UpdateEndpointList(m, key) ==
    IF key \in {"ctrl+c", "q"} THEN Quit(m)
    ELSE IF key \in {"up", "k"}
    THEN IF m.selectedIndex > 0
         THEN [m EXCEPT !.selectedIndex = m.selectedIndex - 1,
                        !.scrollOffset = IF m.selectedIndex - 1 < m.scrollOffset
                                         THEN m.selectedIndex - 1
                                         ELSE m.scrollOffset]
         ELSE m
    ELSE IF key \in {"down", "j"}
    THEN IF m.selectedIndex < Len(m.endpoints) - 1
         THEN LET visibleItems == m.height - HeaderRows
              IN  [m EXCEPT !.selectedIndex = m.selectedIndex + 1,
                            !.scrollOffset =
                                IF m.selectedIndex + 1 >= m.scrollOffset + visibleItems
                                THEN m.selectedIndex + 1 - visibleItems + 1
                                ELSE m.scrollOffset]
         ELSE m
    ELSE IF key = "enter"
    THEN InitializeInputs([m EXCEPT !.viewState = "EndpointDetailView"])
    ELSE IF key = "c"
    THEN [m EXCEPT !.viewState = "ConfigListView"]
    ELSE m

\* moveFocus, on a selectedIndex in range.
MoveFocus(m, direction) ==
    LET body == EndpointAt(m, m.selectedIndex).RequestBody
        totalInputs == m.paramInputs + (IF body THEN 1 ELSE 0)
        currentFocus == IF m.paramFocus >= 0 THEN m.paramFocus
                        ELSE IF body /\ m.bodyFocused THEN m.paramInputs
                        ELSE -1
        blurred == [m EXCEPT !.paramFocus = -1,
                             !.bodyFocused = IF m.paramFocus < 0 /\ body
                                             THEN FALSE ELSE m.bodyFocused]
        newFocus == (currentFocus + direction + totalInputs) % totalInputs
    IN  IF totalInputs = 0 THEN m
        ELSE IF newFocus < m.paramInputs THEN [blurred EXCEPT !.paramFocus = newFocus]
        ELSE IF body THEN [blurred EXCEPT !.bodyFocused = TRUE]
        ELSE blurred

\* isLastInputFocused, on a selectedIndex in range.
IsLastInputFocused(m) ==
    IF EndpointAt(m, m.selectedIndex).RequestBody THEN m.bodyFocused
    ELSE IF m.paramInputs > 0 THEN m.paramFocus = m.paramInputs - 1
    ELSE TRUE

\* sendRequest: the request of the selected endpoint is sent and the
\* response, or the error, is shown.
SendRequest(m) ==
    LET a == Indexed(m)
    IN  IF a.run = "panic" THEN a ELSE [a EXCEPT !.viewState = "ResponseView"]

\* updateEndpointDetail.  Every path but esc and ctrl+c reads
\* m.endpoints[m.selectedIndex]: in moveFocus, in isLastInputFocused, in
\* sendRequest, or in the update of the focused input.
UpdateEndpointDetail(m, key) ==
    IF key = "esc" THEN [m EXCEPT !.viewState = "EndpointListView"]
    ELSE IF key = "ctrl+c" THEN Quit(m)
    ELSE LET a == Indexed(m)
         IN  IF a.run = "panic" THEN a
             ELSE IF key = "tab" THEN MoveFocus(a, 1)
             ELSE IF key = "shift+tab" THEN MoveFocus(a, -1)
             ELSE IF key = "enter"
             THEN IF IsLastInputFocused(a) THEN SendRequest(a) ELSE MoveFocus(a, 1)
             ELSE IF key = "ctrl+s" THEN SendRequest(a)
             ELSE a

\* updateResponseView.
UpdateResponseView(m, key) ==
    IF key = "esc" THEN [m EXCEPT !.viewState = "EndpointDetailView"]
    ELSE IF key \in {"ctrl+c", "q"} THEN Quit(m)
    ELSE m

\* updateConfigList, as far as the view goes.
UpdateConfigList(m, key) ==
    IF key \in {"esc", "enter"} THEN [m EXCEPT !.viewState = "EndpointListView"]
    ELSE IF key \in {"ctrl+c", "q"} THEN Quit(m)
    ELSE IF key = "n" THEN [m EXCEPT !.viewState = "ConfigEditView"]
    ELSE m

\* updateConfigEdit, as far as the view goes.
UpdateConfigEdit(m, key) ==
    IF key = "esc" THEN [m EXCEPT !.viewState = "ConfigListView"]
    ELSE IF key = "ctrl+c" THEN Quit(m)
    ELSE m

\* View, called after every Update: renderEndpointDetail reads
\* m.endpoints[m.selectedIndex].
View(m) ==
    IF m.run = "running" /\ m.viewState = "EndpointDetailView" THEN Indexed(m) ELSE m

TUIRunning == tui # NoTUI /\ tui.run = "running"

\* Update on a tea.WindowSizeMsg.
WindowSizeMsg ==
    /\ TUIRunning
    /\ \E height \in Heights :
          tui' = View([tui EXCEPT !.height = height, !.access = {}])
    /\ UNCHANGED <<files, dirs, envs, last, procs>>

\* What Update makes of a tea.KeyMsg that the view's handler takes to next.
Dispatched(next) ==
    /\ tui' = View(next)
    /\ UNCHANGED <<files, dirs, envs, last, procs>>

\* Update on a tea.KeyMsg, one action for each viewState.
EndpointListKey ==
    /\ TUIRunning
    /\ tui.viewState = "EndpointListView"
    /\ \E key \in Keys : Dispatched(UpdateEndpointList([tui EXCEPT !.access = {}], key))

EndpointDetailKey ==
    /\ TUIRunning
    /\ tui.viewState = "EndpointDetailView"
    /\ \E key \in Keys : Dispatched(UpdateEndpointDetail([tui EXCEPT !.access = {}], key))

ResponseKey ==
    /\ TUIRunning
    /\ tui.viewState = "ResponseView"
    /\ \E key \in Keys : Dispatched(UpdateResponseView([tui EXCEPT !.access = {}], key))

ConfigListKey ==
    /\ TUIRunning
    /\ tui.viewState = "ConfigListView"
    /\ \E key \in Keys : Dispatched(UpdateConfigList([tui EXCEPT !.access = {}], key))

ConfigEditKey ==
    /\ TUIRunning
    /\ tui.viewState = "ConfigEditView"
    /\ \E key \in Keys : Dispatched(UpdateConfigEdit([tui EXCEPT !.access = {}], key))

InitTUI ==
    /\ files = EmptyFcn
    /\ dirs = {<<>>}
    /\ envs = DefaultEnvs
    /\ last = NoCall
    /\ procs = NoProcs
    /\ \E endpoints \in Endpoints : tui = NewModel(endpoints)

NextTUI ==
    \/ WindowSizeMsg
    \/ EndpointListKey
    \/ EndpointDetailKey
    \/ ResponseKey
    \/ ConfigListKey
    \/ ConfigEditKey

SpecTUI == InitTUI /\ [][NextTUI]_vars

\* C33: the TUI selection stays in range.  For any sequence of key and
\* window-size events from the initial model, every access
\* endpoints[selectedIndex] (on Enter in the endpoint list, in the detail
\* view, on send) has 0 <= selectedIndex < len(endpoints), also with a
\* document that yields no endpoints.
C33_SelectionInRange ==
    tui # NoTUI => \A i \in tui.access : InRange(tui, i)

\* C34: the TUI selection stays visible.  In the endpoint list view, after
\* any sequence of up/down key events and window-size events on a terminal
\* with room for the list, scrollOffset <= selectedIndex <
\* scrollOffset + (height - 10) and 0 <= scrollOffset <= selectedIndex.
C34_SelectionVisible ==
    (TUIRunning /\ tui.viewState = "EndpointListView"
        /\ tui.height - HeaderRows >= 1) =>
        /\ tui.scrollOffset <= tui.selectedIndex
        /\ tui.selectedIndex < tui.scrollOffset + (tui.height - HeaderRows)
        /\ 0 <= tui.scrollOffset

====
